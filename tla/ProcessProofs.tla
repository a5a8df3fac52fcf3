---------------------------- MODULE ProcessProofs ----------------------------
(***************************************************************************)
(* Proofs about the process and its threads: thread data, options and the  *)
(* delayed output, for any threads, programs and environments.             *)
(***************************************************************************)
EXTENDS ProcessProps, TLAPS, FiniteSetTheorems

(***************************************************************************)
(* Steps and their arguments.                                              *)
(***************************************************************************)
Typed(s) ==
    /\ s[1] \in {"get", "getenv", "initialized", "parse"} => s[2] \in Option
    /\ s[1] = "parse" => s[3] \in Int \cup {Bogus}
    /\ s[1] \in {"message", "verbose?", "limit?"} => s[2] \in Kind
    /\ s[1] = "out" => s[3] \in Nat \ {0}
    /\ s[1] = "claim" => s[2] \in Nat \ {0}
    /\ s[1] = "copy" => s[2] \in Nat /\ s[3] \in Nat
    /\ s[1] = "flush" => s[2] \in BOOLEAN
    /\ s[1] \in {"terminate", "deliver"} => s[2] \in 0..MaxDelay /\ s[3] \in BOOLEAN
    /\ s[1] \in {"stat", "peak", "flow", "peakCas"} => s[2] \in Stat /\ s[3] \in Int
    /\ s[1] = "peakCas" => s[4] \in Int
    /\ s[1] \in {"merge", "clear", "stats_reset", "heap_done", "add"} => s[2] \in Tld
    /\ s[1] = "add" => s[3] \in Field
    /\ s[1] = "count" => s[2] \in Int
    /\ s[1] \in {"cached", "os_alloc", "drain", "destructors", "put"} => s[2] \in Nat \ {0}
    /\ s[1] \in {"exchange", "drain_take", "put_cas"} => s[2] \in Slot
    /\ s[1] \in {"fill", "adopt"} => s[2] \in Td
    /\ s[1] \in {"put", "put_cas"} => s[3] \in Td
    /\ s[1] = "thread_done" => s[2] \in DefaultHeap

\* The arguments of a step have the types of its name.
LEMMA FrameArgs == \A s \in Frame : Typed(s)
<1> TAKE s \in Frame
<1>1. CASE s \in PlainFrame
  BY <1>1 DEF PlainFrame, Typed
<1>2. CASE s \in MessageFrame
  <2>1. CASE s \in {"get", "getenv", "initialized"} \X Option
    BY <2>1 DEF Typed
  <2>2. CASE s \in {"parse"} \X Option \X (Int \cup {Bogus})
    BY <2>2 DEF Typed
  <2>3. CASE s \in {"message", "verbose?", "limit?"} \X Kind
    BY <2>3 DEF Typed
  <2>4. CASE s \in {"out"} \X {"buf", "bufStderr", "stderr", "user"} \X (Nat \ {0})
    BY <2>4 DEF Typed
  <2>5. CASE s \in {"claim"} \X (Nat \ {0})
    BY <2>5 DEF Typed
  <2>6. CASE s \in {"copy"} \X Nat \X Nat
    BY <2>6 DEF Typed
  <2>7. CASE s \in {"flush"} \X BOOLEAN
    BY <2>7 DEF Typed
  <2>8. CASE s \in {"terminate", "deliver"} \X (0..MaxDelay) \X BOOLEAN
    BY <2>8 DEF Typed
  <2> QED
    BY <1>2, <2>1, <2>2, <2>3, <2>4, <2>5, <2>6, <2>7, <2>8 DEF MessageFrame
<1>3. CASE s \in StatFrame
  <2>1. CASE s \in {"stat", "peak", "flow"} \X Stat \X Int
    BY <2>1 DEF Typed
  <2>2. CASE s \in {"peakCas"} \X Stat \X Int \X Int
    BY <2>2 DEF Typed
  <2>3. CASE s \in {"merge", "clear", "stats_reset", "heap_done"} \X Tld
    BY <2>3 DEF Typed
  <2>4. CASE s \in {"add"} \X Tld \X Field
    BY <2>4 DEF Typed
  <2>5. CASE s \in {"count"} \X Int
    BY <2>5 DEF Typed
  <2> QED
    BY <1>3, <2>1, <2>2, <2>3, <2>4, <2>5 DEF StatFrame
<1>4. CASE s \in DataFrame
  <2>1. CASE s \in {"cached", "os_alloc", "drain", "destructors"} \X (Nat \ {0})
    BY <2>1 DEF Typed
  <2>2. CASE s \in {"exchange", "drain_take"} \X Slot
    BY <2>2 DEF Typed
  <2>3. CASE s \in {"fill", "adopt"} \X Td
    BY <2>3 DEF Typed
  <2>4. CASE s \in {"put"} \X (Nat \ {0}) \X Td
    BY <2>4 DEF Typed
  <2>5. CASE s \in {"put_cas"} \X Slot \X Td
    BY <2>5 DEF Typed
  <2>6. CASE s \in {"thread_done"} \X DefaultHeap
    BY <2>6 DEF Typed
  <2> QED
    BY <1>4, <2>1, <2>2, <2>3, <2>4, <2>5, <2>6 DEF DataFrame
<1> QED
  BY <1>1, <1>2, <1>3, <1>4 DEF Frame

\* A step with arguments of these types is a step.
LEMMA FrameText ==
    /\ \A n \in {"get", "getenv", "initialized"}, o \in Option : <<n, o>> \in Frame
    /\ \A o \in Option, v \in Int \cup {Bogus} : <<"parse", o, v>> \in Frame
    /\ \A n \in {"message", "verbose?", "limit?"}, k \in Kind : <<n, k>> \in Frame
    /\ \A out \in {"buf", "bufStderr", "stderr", "user"}, n \in Nat \ {0} : <<"out", out, n>> \in Frame
    /\ \A n \in Nat \ {0} : <<"claim", n>> \in Frame
    /\ \A a, n \in Nat : <<"copy", a, n>> \in Frame
    /\ \A b \in BOOLEAN : <<"flush", b>> \in Frame
    /\ \A p \in 0..MaxDelay, b \in BOOLEAN :
          <<"terminate", p, b>> \in Frame /\ <<"deliver", p, b>> \in Frame
BY DEF Frame, MessageFrame

LEMMA FrameStats ==
    /\ \A n \in {"stat", "peak", "flow"}, s \in Stat, x \in Int : <<n, s, x>> \in Frame
    /\ \A s \in Stat, x \in Int, y \in Int : <<"peakCas", s, x, y>> \in Frame
    /\ \A n \in {"merge", "clear", "stats_reset", "heap_done"}, d \in Tld : <<n, d>> \in Frame
    /\ \A d \in Tld, f \in Field : <<"add", d, f>> \in Frame
    /\ \A n \in Int : <<"count", n>> \in Frame
BY DEF Frame, StatFrame

LEMMA FrameLife ==
    /\ \A n \in {"cached", "os_alloc", "drain", "destructors"}, i \in Nat \ {0} : <<n, i>> \in Frame
    /\ \A n \in {"exchange", "drain_take"}, i \in Slot : <<n, i>> \in Frame
    /\ \A n \in {"fill", "adopt"}, d \in Td : <<n, d>> \in Frame
    /\ \A i \in Nat \ {0}, d \in Td : <<"put", i, d>> \in Frame
    /\ \A i \in Slot, d \in Td : <<"put_cas", i, d>> \in Frame
    /\ \A h \in DefaultHeap : <<"thread_done", h>> \in Frame
    /\ \A n \in {"malloc", "thread_init", "process_init", "heap_init", "heap_main_init",
                 "loading", "options_init", "auto_done", "key", "adopt_main", "collect",
                 "process_done", "stats_print", "print_merge", "unload",
                 "quiet", "fputs", "add_stderr", "limits"} : <<n>> \in Frame
BY DEF Frame, PlainFrame, DataFrame

(***************************************************************************)
(* What a step leaves ahead of its thread.                                 *)
(***************************************************************************)
Elements(c) == {c[i] : i \in DOMAIN c}
Rest(t) == {todo[t][i] : i \in 2..Len(todo[t])}

\* What a step named n calls, one named m, may come wherever the step may come.
Closed(n, m) ==
    /\ n # "destructors" => m # "destructors"
    /\ n # "options_init" => m # "options_init"
    /\ n \in CountNames => m \in CountNames
    /\ n \in DoneNames => m \in DoneNames
    /\ n \in MessageNames => m \in MessageNames

LEMMA OverClosed ==
    ASSUME NEW low, NEW up, NEW new, Over(low, up), Closed(up[1], new[1])
    PROVE  Over(low, new)
BY DEF Over, Closed

\* t may do the steps of c, in this order.
May(t, c) ==
    /\ c \in Seq(Frame) /\ Stacked(c)
    /\ \A s \in Elements(c) : s[1] \in MainNames => t = Main

\* t has done the step it was at, or was idle, and has c ahead of it before the rest.
Stepped(t, c) ==
    /\ c \in Seq(Frame)
    /\ StackInv'
    /\ \A u \in Thread \ {t} : todo'[u] = todo[u]
    /\ Ahead(t)' = Elements(c) \cup Rest(t)
    /\ Ahead(t) = IF Idle(t) THEN {} ELSE {Head(todo[t])} \cup Rest(t)
    /\ Idle(t) => Rest(t) = {}
    /\ ~Idle(t) => \A s \in Rest(t) : Over(s, Head(todo[t]))
    /\ Idle(t)' <=> c = <<>> /\ Rest(t) = {}
    /\ c # <<>> => todo'[t] # <<>> /\ Head(todo'[t]) = c[1]
    /\ c = <<>> /\ todo'[t] # <<>> => Head(todo'[t]) \in Rest(t)

\* A sequence whose first element is replaced by other elements.
LEMMA Replaced ==
    ASSUME NEW S, NEW s \in Seq(S), s # <<>>, NEW c \in Seq(S)
    PROVE  /\ c \o Tail(s) \in Seq(S)
           /\ Len(c \o Tail(s)) = Len(c) + Len(s) - 1
           /\ Len(s) \in Nat /\ Len(s) > 0 /\ Len(c) \in Nat
           /\ \A i \in 1..Len(c) : (c \o Tail(s))[i] = c[i]
           /\ \A i \in (Len(c) + 1)..(Len(c) + Len(s) - 1) :
                 (c \o Tail(s))[i] = s[i - Len(c) + 1]
OBVIOUS

LEMMA ReplacedElements ==
    ASSUME NEW S, NEW s \in Seq(S), s # <<>>, NEW c \in Seq(S)
    PROVE  Elements(c \o Tail(s)) = Elements(c) \cup {s[i] : i \in 2..Len(s)}
<1> DEFINE r == c \o Tail(s)
<1>1. /\ r \in Seq(S) /\ Len(r) = Len(c) + Len(s) - 1
      /\ Len(s) \in Nat /\ Len(s) > 0 /\ Len(c) \in Nat
      /\ \A i \in 1..Len(c) : r[i] = c[i]
      /\ \A i \in (Len(c) + 1)..(Len(c) + Len(s) - 1) : r[i] = s[i - Len(c) + 1]
  BY Replaced
<1>2. DOMAIN r = 1..Len(r) /\ DOMAIN c = 1..Len(c)
  BY <1>1
<1> HIDE DEF r
<1>3. ASSUME NEW i \in DOMAIN r
      PROVE  r[i] \in Elements(c) \cup {s[j] : j \in 2..Len(s)}
  <2>1. CASE i \in 1..Len(c)
    BY <1>1, <1>2, <2>1 DEF Elements
  <2>2. CASE i \notin 1..Len(c)
    <3> DEFINE j == i - Len(c) + 1
    <3>1. i \in (Len(c) + 1)..(Len(c) + Len(s) - 1) /\ j \in 2..Len(s)
      BY <1>1, <1>2, <2>2
    <3>2. r[i] = s[j]
      BY <1>1, <3>1
    <3> HIDE DEF j
    <3> QED
      BY <3>1, <3>2
  <2> QED
    BY <2>1, <2>2
<1>4. ASSUME NEW i \in DOMAIN c
      PROVE  c[i] \in Elements(r)
  <2>1. i \in DOMAIN r /\ r[i] = c[i]
    BY <1>1, <1>2
  <2> QED
    BY <2>1 DEF Elements
<1>5. ASSUME NEW j \in 2..Len(s)
      PROVE  s[j] \in Elements(r)
  <2> DEFINE i == j + Len(c) - 1
  <2>1. i \in (Len(c) + 1)..(Len(c) + Len(s) - 1) /\ i \in DOMAIN r /\ i - Len(c) + 1 = j
    BY <1>1, <1>2
  <2>2. r[i] = s[j]
    BY <1>1, <2>1
  <2> HIDE DEF i
  <2> QED
    BY <2>1, <2>2 DEF Elements
<1>6. Elements(r) = Elements(c) \cup {s[j] : j \in 2..Len(s)}
  <2>1. Elements(r) \subseteq Elements(c) \cup {s[j] : j \in 2..Len(s)}
    BY <1>3 DEF Elements
  <2>2. Elements(c) \subseteq Elements(r)
    BY <1>4 DEF Elements
  <2>3. {s[j] : j \in 2..Len(s)} \subseteq Elements(r)
    BY <1>5
  <2> QED
    BY <2>1, <2>2, <2>3
<1> QED
  BY <1>6 DEF r

\* The order of steps is kept when what replaces the first one is closed.
LEMMA ReplacedStacked ==
    ASSUME NEW S, NEW s \in Seq(S), s # <<>>, NEW c \in Seq(S), Stacked(s), Stacked(c),
           \A new \in Elements(c) : Closed(Head(s)[1], new[1])
    PROVE  Stacked(c \o Tail(s))
<1> DEFINE r == c \o Tail(s)
<1>1. /\ r \in Seq(S) /\ Len(r) = Len(c) + Len(s) - 1
      /\ Len(s) \in Nat /\ Len(s) > 0 /\ Len(c) \in Nat
      /\ \A i \in 1..Len(c) : r[i] = c[i]
      /\ \A i \in (Len(c) + 1)..(Len(c) + Len(s) - 1) : r[i] = s[i - Len(c) + 1]
  BY Replaced
<1>2. DOMAIN r = 1..Len(r) /\ DOMAIN c = 1..Len(c) /\ DOMAIN s = 1..Len(s) /\ Head(s) = s[1]
  BY <1>1
<1> HIDE DEF r
<1>3. ASSUME NEW i \in DOMAIN r, NEW j \in 1..(i - 1)
      PROVE  Over(r[i], r[j])
  <2>1. CASE i \in 1..Len(c)
    <3>1. i \in DOMAIN c /\ j \in 1..Len(c) /\ r[i] = c[i] /\ r[j] = c[j]
      BY <1>1, <1>2, <2>1
    <3> QED
      BY <3>1 DEF Stacked
  <2>2. CASE i \notin 1..Len(c)
    <3> DEFINE k == i - Len(c) + 1
    <3>0. i \in (Len(c) + 1)..(Len(c) + Len(s) - 1) /\ k \in 2..Len(s)
      BY <1>1, <1>2, <2>2
    <3>1. k \in 2..Len(s) /\ r[i] = s[k]
      BY <1>1, <3>0
    <3>2. \A m \in 1..(k - 1) : Over(s[k], s[m])
      BY <1>2, <3>1 DEF Stacked
    <3>3. CASE j \in 1..Len(c)
      <4>1. r[j] = c[j] /\ c[j] \in Elements(c)
        BY <1>1, <1>2, <3>3 DEF Elements
      <4>2. Over(s[k], s[1])
        BY <3>1, <3>2, <1>1
      <4> QED
        BY <1>2, <3>1, <4>1, <4>2, OverClosed
    <3>4. CASE j \notin 1..Len(c)
      <4> DEFINE m == j - Len(c) + 1
      <4>1. m \in 1..(k - 1) /\ r[j] = s[m]
        <5>0. Len(c) \in Nat /\ Len(s) \in Nat /\ i \in Int /\ i <= Len(c) + Len(s) - 1
          BY <1>1, <3>0
        <5>2. j \in Int /\ 1 <= j /\ j < i /\ j > Len(c)
          BY <3>4, <5>0
        <5>1. j \in (Len(c) + 1)..(Len(c) + Len(s) - 1) /\ m \in 1..(k - 1)
          BY <5>0, <5>2
        <5> QED
          BY <1>1, <5>1
      <4> HIDE DEF m
      <4> QED
        BY <3>1, <3>2, <4>1
    <3> QED
      BY <3>3, <3>4
  <2> QED
    BY <2>1, <2>2
<1> QED
  BY <1>3 DEF Stacked, r

\* A thread that has done the step it was at has what that step calls before the rest.
LEMMA ThenStepped ==
    ASSUME StackInv, NEW t \in Thread, NEW c, ~Idle(t), May(t, c), Then(t, c),
           \A s \in Elements(c) : Closed(Head(todo[t])[1], s[1])
    PROVE  Stepped(t, c)
<1> DEFINE s == todo[t]
           r == c \o Tail(s)
<1>1. s \in Seq(Frame) /\ s # <<>> /\ c \in Seq(Frame) /\ Stacked(s) /\ Stacked(c)
  BY DEF StackInv, May, Idle
<1>2. /\ r \in Seq(Frame) /\ Len(r) = Len(c) + Len(s) - 1
      /\ Len(s) \in Nat /\ Len(s) > 0 /\ Len(c) \in Nat
      /\ \A i \in 1..Len(c) : r[i] = c[i]
      /\ \A i \in (Len(c) + 1)..(Len(c) + Len(s) - 1) : r[i] = s[i - Len(c) + 1]
  BY <1>1, Replaced
<1>3. Elements(r) = Elements(c) \cup Rest(t)
  BY <1>1, ReplacedElements DEF Rest
<1>4. Stacked(r)
  BY <1>1, ReplacedStacked
<1>5. /\ todo' = [todo EXCEPT ![t] = r] /\ todo \in [Thread -> Seq(Frame)]
  BY DEF Then, StackInv
<1> HIDE DEF r
<1>6. /\ todo'[t] = r /\ todo' \in [Thread -> Seq(Frame)]
      /\ \A u \in Thread \ {t} : todo'[u] = todo[u]
  BY <1>2, <1>5
<1>7. Ahead(t)' = Elements(c) \cup Rest(t)
  <2>1. Ahead(t)' = Elements(todo'[t])
    BY DEF Ahead, Elements
  <2> QED
    BY <1>3, <1>6, <2>1
<1>8. Ahead(t) = {Head(s)} \cup Rest(t)
  <2>1. DOMAIN s = {1} \cup 2..Len(s) /\ Head(s) = s[1]
    BY <1>1, <1>2
  <2> QED
    BY <2>1 DEF Ahead, Rest
<1>9. \A x \in Rest(t) : Over(x, Head(s))
  <2>1. \A i \in 2..Len(s) : i \in DOMAIN s /\ 1 \in 1..(i - 1) /\ Head(s) = s[1]
    BY <1>1, <1>2
  <2> QED
    BY <1>1, <2>1 DEF Rest, Stacked
<1>10. StackInv'
  <2>1. ASSUME NEW u \in Thread
        PROVE  /\ Stacked(todo[u])'
               /\ (\A x \in Ahead(u) : x[1] \in MainNames => u = Main)'
    <3>1. CASE u = t
      <4>1. Stacked(todo[u])'
        BY <1>4, <1>6, <3>1 DEF Stacked
      <4>2. \A x \in Rest(t) : x[1] \in MainNames => t = Main
        BY <1>8 DEF StackInv
      <4>3. \A x \in Elements(c) : x[1] \in MainNames => t = Main
        BY DEF May
      <4> QED
        BY <1>7, <3>1, <4>1, <4>2, <4>3
    <3>2. CASE u # t
      <4>1. todo'[u] = todo[u] /\ Ahead(u)' = Ahead(u)
        BY <1>6, <3>2 DEF Ahead
      <4> QED
        BY <4>1 DEF StackInv, Stacked
    <3> QED
      BY <3>1, <3>2
  <2> QED
    BY <1>6, <2>1 DEF StackInv
<1>11. Idle(t)' <=> c = <<>> /\ Rest(t) = {}
  <2>0. (r = <<>> <=> Len(r) = 0) /\ (c = <<>> <=> Len(c) = 0)
    BY <1>1, <1>2
  <2>1. r = <<>> <=> c = <<>> /\ Len(s) = 1
    <3>1. Len(c) \in Nat /\ Len(s) \in Nat /\ Len(s) > 0 /\ Len(r) = Len(c) + Len(s) - 1
      BY <1>2
    <3> DEFINE m == Len(c)
               n == Len(s)
    <3>2. (r = <<>> <=> m + n - 1 = 0) /\ (c = <<>> <=> m = 0) /\ m \in Nat /\ n \in Nat /\ n > 0
      BY <2>0, <3>1
    <3> HIDE DEF m, n
    <3>3. r = <<>> <=> c = <<>> /\ n = 1
      BY <3>2
    <3> QED
      BY <3>3 DEF n
  <2>3. Rest(t) = {} <=> Len(s) = 1
    <3>0. Len(s) \in Nat /\ Len(s) > 0
      BY <1>2
    <3>1. Len(s) = 1 => 2..Len(s) = {}
      OBVIOUS
    <3>2. Len(s) # 1 => 2 \in 2..Len(s)
      <4> DEFINE n == Len(s)
      <4>1. n \in Nat /\ n > 0
        BY <3>0
      <4> HIDE DEF n
      <4>2. n # 1 => 2 \in 2..n
        BY <4>1
      <4> QED
        BY <4>2 DEF n
    <3>3. 2 \in 2..Len(s) => s[2] \in Rest(t)
      BY DEF Rest
    <3>4. 2..Len(s) = {} => Rest(t) = {}
      BY DEF Rest
    <3> QED
      BY <3>1, <3>2, <3>3, <3>4
  <2> QED
    BY <1>6, <2>1, <2>3 DEF Idle
<1>12. c # <<>> => todo'[t] # <<>> /\ Head(todo'[t]) = c[1]
  <2> SUFFICES ASSUME c # <<>>
               PROVE  todo'[t] # <<>> /\ Head(todo'[t]) = c[1]
    OBVIOUS
  <2>1. Len(c) > 0 /\ 1 \in 1..Len(c) /\ Len(r) > 0
    BY <1>1, <1>2
  <2>2. r[1] = c[1] /\ r # <<>> /\ Head(r) = r[1]
    BY <1>2, <2>1
  <2> QED
    BY <1>6, <2>2
<1>13. c = <<>> /\ todo'[t] # <<>> => Head(todo'[t]) \in Rest(t)
  <2> SUFFICES ASSUME c = <<>>, todo'[t] # <<>>
               PROVE  Head(todo'[t]) \in Rest(t)
    OBVIOUS
  <2>1. Len(c) = 0 /\ r # <<>>
    BY <1>6
  <2>2. Len(r) > 0 /\ Head(r) = r[1]
    BY <1>2, <2>1
  <2>3. 1 \in (Len(c) + 1)..(Len(c) + Len(s) - 1) /\ 1 - Len(c) + 1 = 2 /\ 2 \in 2..Len(s)
    BY <1>2, <2>1, <2>2
  <2>4. r[1] = s[2]
    BY <1>2, <2>3
  <2> QED
    BY <1>6, <2>2, <2>3, <2>4 DEF Rest
<1> QED
  BY <1>1, <1>6, <1>7, <1>8, <1>9, <1>10, <1>11, <1>12, <1>13 DEF Stepped, Idle

\* So has an idle thread that begins a call.
LEMMA CallStepped ==
    ASSUME StackInv, NEW t \in Thread, NEW c, May(t, c), Call(t, c)
    PROVE  Stepped(t, c)
<1>1. /\ todo' = [todo EXCEPT ![t] = c] /\ todo \in [Thread -> Seq(Frame)] /\ todo[t] = <<>>
      /\ c \in Seq(Frame) /\ Stacked(c)
  BY DEF Call, Idle, StackInv, May
<1>2. /\ todo'[t] = c /\ todo' \in [Thread -> Seq(Frame)]
      /\ \A u \in Thread \ {t} : todo'[u] = todo[u]
  BY <1>1
<1>3. Rest(t) = {} /\ Ahead(t) = {} /\ Ahead(t)' = Elements(c)
  BY <1>1, <1>2 DEF Rest, Ahead, Elements
<1>4. StackInv'
  <2>1. ASSUME NEW u \in Thread
        PROVE  /\ Stacked(todo[u])'
               /\ (\A x \in Ahead(u) : x[1] \in MainNames => u = Main)'
    <3>1. CASE u = t
      BY <1>1, <1>2, <1>3, <3>1 DEF Stacked, May
    <3>2. CASE u # t
      <4>1. todo'[u] = todo[u] /\ Ahead(u)' = Ahead(u)
        BY <1>2, <3>2 DEF Ahead
      <4> QED
        BY <4>1 DEF StackInv, Stacked
    <3> QED
      BY <3>1, <3>2
  <2> QED
    BY <1>2, <2>1 DEF StackInv
<1>5. c # <<>> => Head(c) = c[1]
  BY <1>1
<1> QED
  BY <1>1, <1>2, <1>3, <1>4, <1>5 DEF Stepped, Idle

\* The few steps that most calls consist of.
LEMMA MayNone == \A t : May(t, <<>>) /\ Elements(<<>>) = {}
BY DEF May, Elements, Stacked

LEMMA MayOne ==
    ASSUME NEW t, NEW a \in Frame, a[1] \in MainNames => t = Main
    PROVE  May(t, <<a>>) /\ Elements(<<a>>) = {a}
BY DEF May, Elements, Stacked

\* r is c with a before it.
Prefixed(r, a, c) == /\ r \in Seq(Frame) /\ Len(r) = Len(c) + 1
                     /\ r[1] = a /\ \A i \in 1..Len(c) : r[i + 1] = c[i]

LEMMA MayCons ==
    ASSUME NEW t, NEW a \in Frame, a[1] \in MainNames => t = Main,
           NEW c, May(t, c), \A s \in Elements(c) : Over(s, a),
           NEW r, Prefixed(r, a, c)
    PROVE  May(t, r) /\ Elements(r) = {a} \cup Elements(c)
<1>0. /\ r \in Seq(Frame) /\ Len(r) = Len(c) + 1 /\ r[1] = a
      /\ \A i \in 1..Len(c) : r[i + 1] = c[i]
  BY DEF Prefixed
<1>1. c \in Seq(Frame) /\ Stacked(c) /\ \A s \in Elements(c) : s[1] \in MainNames => t = Main
  BY DEF May
<1>2. /\ Len(c) \in Nat /\ DOMAIN r = 1..(Len(c) + 1) /\ DOMAIN c = 1..Len(c)
      /\ \A i \in 2..(Len(c) + 1) : r[i] = c[i - 1]
  <2>1. Len(c) \in Nat /\ DOMAIN r = 1..(Len(c) + 1) /\ DOMAIN c = 1..Len(c)
    BY <1>0, <1>1
  <2>2. ASSUME NEW i \in 2..(Len(c) + 1)
        PROVE  r[i] = c[i - 1]
    <3> DEFINE j == i - 1
    <3>1. j \in 1..Len(c) /\ j + 1 = i
      BY <2>1
    <3>2. r[j + 1] = c[j]
      BY <1>0, <3>1
    <3> QED
      BY <3>1, <3>2
  <2> QED
    BY <2>1, <2>2
<1>3. \A i \in DOMAIN r : i = 1 \/ (i \in 2..(Len(c) + 1) /\ i - 1 \in DOMAIN c /\ r[i] = c[i - 1])
  BY <1>2
<1>4. \A i \in DOMAIN c : i + 1 \in DOMAIN r /\ r[i + 1] = c[i] /\ 1 \in DOMAIN r
  BY <1>2
<1>5. Elements(r) = {a} \cup Elements(c)
  <2>1. Elements(r) \subseteq {a} \cup Elements(c)
    BY <1>0, <1>2, <1>3 DEF Elements
  <2>2. a \in Elements(r)
    <3>1. 1 \in DOMAIN r
      BY <1>2
    <3> QED
      BY <1>0, <1>2, <3>1 DEF Elements
  <2>3. Elements(c) \subseteq Elements(r)
    BY <1>4 DEF Elements
  <2> QED
    BY <2>1, <2>2, <2>3
<1>6. Stacked(r)
  <2>1. ASSUME NEW i \in DOMAIN r, NEW j \in 1..(i - 1)
        PROVE  Over(r[i], r[j])
    <3>1. i \in 2..(Len(c) + 1) /\ i - 1 \in DOMAIN c /\ r[i] = c[i - 1] /\ i \in Int
      BY <1>2, <1>3
    <3>2. CASE j = 1
      BY <1>0, <1>2, <3>1, <3>2 DEF Elements
    <3>3. CASE j # 1
      <4>1. j \in 2..(Len(c) + 1) /\ j - 1 \in 1..((i - 1) - 1)
        BY <1>2, <3>1, <3>3
      <4>2. r[j] = c[j - 1]
        BY <1>2, <4>1
      <4> QED
        BY <1>1, <3>1, <4>1, <4>2 DEF Stacked
    <3> QED
      BY <3>2, <3>3
  <2> QED
    BY <2>1 DEF Stacked
<1> QED
  BY <1>0, <1>1, <1>5, <1>6 DEF May

\* Two sequences of steps, one after the other.
LEMMA MayJoin ==
    ASSUME NEW t, NEW c, May(t, c), NEW d, May(t, d),
           \A x \in Elements(c), y \in Elements(d) : Over(y, x)
    PROVE  May(t, c \o d) /\ Elements(c \o d) = Elements(c) \cup Elements(d)
<1> DEFINE r == c \o d
<1>1. /\ c \in Seq(Frame) /\ Stacked(c) /\ (\A s \in Elements(c) : s[1] \in MainNames => t = Main)
      /\ d \in Seq(Frame) /\ Stacked(d) /\ (\A s \in Elements(d) : s[1] \in MainNames => t = Main)
  BY DEF May
<1>2. /\ r \in Seq(Frame) /\ Len(c) \in Nat /\ Len(d) \in Nat /\ DOMAIN r = 1..(Len(c) + Len(d))
      /\ DOMAIN c = 1..Len(c) /\ DOMAIN d = 1..Len(d)
      /\ \A i \in 1..Len(c) : r[i] = c[i]
      /\ \A i \in (Len(c) + 1)..(Len(c) + Len(d)) : r[i] = d[i - Len(c)]
  BY <1>1
<1> HIDE DEF r
<1>3. \A i \in DOMAIN r : \/ i \in DOMAIN c /\ r[i] = c[i]
                          \/ i > Len(c) /\ i - Len(c) \in DOMAIN d /\ r[i] = d[i - Len(c)]
  BY <1>2
<1>4. \A i \in DOMAIN c : i \in DOMAIN r /\ r[i] = c[i]
  BY <1>2
<1>5. ASSUME NEW i \in DOMAIN d
      PROVE  i + Len(c) \in DOMAIN r /\ r[i + Len(c)] = d[i]
  <2> DEFINE k == i + Len(c)
  <2>1. k \in (Len(c) + 1)..(Len(c) + Len(d)) /\ k \in DOMAIN r /\ k - Len(c) = i
    BY <1>2
  <2>2. r[k] = d[k - Len(c)]
    BY <1>2, <2>1
  <2> QED
    BY <2>1, <2>2
<1>6. Elements(r) = Elements(c) \cup Elements(d)
  BY <1>3, <1>4, <1>5 DEF Elements
<1>7. Stacked(r)
  <2>1. ASSUME NEW i \in DOMAIN r, NEW j \in 1..(i - 1)
        PROVE  Over(r[i], r[j])
    <3>0. i \in Int /\ j \in Int /\ j >= 1 /\ j < i /\ j \in DOMAIN r
      BY <1>2
    <3>1. CASE i \in DOMAIN c
      <4>1. j \in DOMAIN c
        BY <1>2, <3>0, <3>1
      <4> QED
        BY <1>1, <1>4, <3>1, <4>1 DEF Stacked
    <3>2. CASE i \notin DOMAIN c
      <4>1. i > Len(c) /\ i - Len(c) \in DOMAIN d /\ r[i] = d[i - Len(c)]
        BY <1>3, <3>2
      <4>2. CASE j \in DOMAIN c
        BY <1>4, <4>1, <4>2 DEF Elements
      <4>3. CASE j \notin DOMAIN c
        <5>1. j > Len(c) /\ r[j] = d[j - Len(c)]
          BY <1>3, <3>0, <4>3
        <5>2. j - Len(c) \in 1..((i - Len(c)) - 1)
          BY <1>2, <3>0, <5>1
        <5> QED
          BY <1>1, <4>1, <5>1, <5>2 DEF Stacked
      <4> QED
        BY <4>2, <4>3
    <3> QED
      BY <3>1, <3>2
  <2> QED
    BY <2>1 DEF Stacked
<1>8. May(t, r) /\ Elements(r) = Elements(c) \cup Elements(d)
  BY <1>1, <1>2, <1>6, <1>7 DEF May
<1> QED
  BY <1>8 DEF r

LEMMA MayTwo ==
    ASSUME NEW t, NEW a \in Frame, NEW b \in Frame,
           Over(b, a),
           {a[1], b[1]} \cap MainNames # {} => t = Main
    PROVE  May(t, <<a, b>>) /\ Elements(<<a, b>>) = {a, b}
<1> DEFINE r == <<a, b>>
           rest == <<b>>
<1>1. May(t, rest) /\ Elements(rest) = {b}
  BY MayOne
<1>2. (a[1] \in MainNames => t = Main) /\ \A s \in Elements(rest) : Over(s, a)
  BY <1>1
<1>3. Prefixed(r, a, rest)
  BY DEF Prefixed
<1> HIDE DEF r, rest
<1>4. May(t, r) /\ Elements(r) = {a} \cup Elements(rest)
  BY <1>1, <1>2, <1>3, MayCons
<1> QED
  BY <1>1, <1>4 DEF r

LEMMA MayThree ==
    ASSUME NEW t, NEW a \in Frame, NEW b \in Frame, NEW c \in Frame,
           Over(b, a), Over(c, a), Over(c, b),
           {a[1], b[1], c[1]} \cap MainNames # {} => t = Main
    PROVE  May(t, <<a, b, c>>) /\ Elements(<<a, b, c>>) = {a, b, c}
<1> DEFINE r == <<a, b, c>>
           rest == <<b, c>>
<1>1. May(t, rest) /\ Elements(rest) = {b, c}
  BY MayTwo
<1>2. (a[1] \in MainNames => t = Main) /\ \A s \in Elements(rest) : Over(s, a)
  BY <1>1
<1>3. Prefixed(r, a, rest)
  BY DEF Prefixed
<1> HIDE DEF r, rest
<1>4. May(t, r) /\ Elements(r) = {a} \cup Elements(rest)
  BY <1>1, <1>2, <1>3, MayCons
<1> QED
  BY <1>1, <1>4 DEF r

LEMMA MayFour ==
    ASSUME NEW t, NEW a \in Frame, NEW b \in Frame, NEW c \in Frame, NEW d \in Frame,
           Over(b, a), Over(c, a), Over(d, a), Over(c, b), Over(d, b), Over(d, c),
           {a[1], b[1], c[1], d[1]} \cap MainNames # {} => t = Main
    PROVE  May(t, <<a, b, c, d>>) /\ Elements(<<a, b, c, d>>) = {a, b, c, d}
<1> DEFINE r == <<a, b, c, d>>
           rest == <<b, c, d>>
<1>1. May(t, rest) /\ Elements(rest) = {b, c, d}
  BY MayThree
<1>2. (a[1] \in MainNames => t = Main) /\ \A s \in Elements(rest) : Over(s, a)
  BY <1>1
<1>3. Prefixed(r, a, rest)
  BY DEF Prefixed
<1> HIDE DEF r, rest
<1>4. May(t, r) /\ Elements(r) = {a} \cup Elements(rest)
  BY <1>1, <1>2, <1>3, MayCons
<1> QED
  BY <1>1, <1>4 DEF r

LEMMA MayFive ==
    ASSUME NEW t, NEW a \in Frame, NEW b \in Frame, NEW c \in Frame, NEW d \in Frame, NEW e \in
           Frame,
           Over(b, a), Over(c, a), Over(d, a), Over(e, a), Over(c, b), Over(d, b), Over(e,
           b), Over(d, c), Over(e, c), Over(e, d),
           {a[1], b[1], c[1], d[1], e[1]} \cap MainNames # {} => t = Main
    PROVE  May(t, <<a, b, c, d, e>>) /\ Elements(<<a, b, c, d, e>>) = {a, b, c, d, e}
<1> DEFINE r == <<a, b, c, d, e>>
           rest == <<b, c, d, e>>
<1>1. May(t, rest) /\ Elements(rest) = {b, c, d, e}
  BY MayFour
<1>2. (a[1] \in MainNames => t = Main) /\ \A s \in Elements(rest) : Over(s, a)
  BY <1>1
<1>3. Prefixed(r, a, rest)
  BY DEF Prefixed
<1> HIDE DEF r, rest
<1>4. May(t, r) /\ Elements(r) = {a} \cup Elements(rest)
  BY <1>1, <1>2, <1>3, MayCons
<1> QED
  BY <1>1, <1>4 DEF r

(***************************************************************************)
(* What most steps leave as it is.                                         *)
(***************************************************************************)
\* The step of t calls nothing named in N; t is not at a step named in N.
Avoids(c, N) == \A s \in Elements(c) : s[1] \notin N
NotAt(t, N) == ~Idle(t) => Head(todo[t])[1] \notin N

\* What is ahead of threads after a step of t.
LEMMA SteppedAhead ==
    ASSUME NEW t \in Thread, NEW c, Stepped(t, c)
    PROVE  /\ \A u \in Thread \ {t} : Ahead(u)' = Ahead(u)
           /\ \A s \in Ahead(t) : s \in Ahead(t)' \/ (~Idle(t) /\ s = Head(todo[t]))
           /\ \A s \in Ahead(t)' : s \in Elements(c) \/ s \in Ahead(t)
<1>1. \A u \in Thread \ {t} : todo'[u] = todo[u]
  BY DEF Stepped
<1>2. \A u \in Thread \ {t} : Ahead(u)' = Ahead(u)
  BY <1>1 DEF Ahead
<1>3. Ahead(t)' = Elements(c) \cup Rest(t) /\ (Idle(t) => Rest(t) = {})
      /\ Ahead(t) = IF Idle(t) THEN {} ELSE {Head(todo[t])} \cup Rest(t)
  BY DEF Stepped
<1> QED
  BY <1>2, <1>3

\* The first steps of threads after a step of t.
LEMMA SteppedNow ==
    ASSUME NEW t \in Thread, NEW c, Stepped(t, c), NEW n \in HeadNames
    PROVE  /\ \A u \in Thread \ {t} : /\ Now(u, n)' <=> Now(u, n)
                                      /\ \A i : Arg(u, i)' = Arg(u, i)
           /\ Now(t, n)' => c # <<>> /\ c[1][1] = n /\ Head(todo[t])' = c[1]
                            /\ Elements(c) = Elements(c) \cup {c[1]}
<1>1. \A u \in Thread \ {t} : todo'[u] = todo[u]
  BY DEF Stepped
<1>2. \A u \in Thread \ {t} : (Now(u, n)' <=> Now(u, n)) /\ \A i : Arg(u, i)' = Arg(u, i)
  BY <1>1 DEF Now, Arg
<1>3. ASSUME Now(t, n)'
      PROVE  c # <<>> /\ c[1][1] = n /\ Head(todo[t])' = c[1] /\ c[1] \in Elements(c)
  <2>1. CASE c = <<>>
    <3>1. todo'[t] # <<>> /\ Head(todo'[t])[1] = n
      BY <1>3 DEF Now
    <3>2. Head(todo'[t]) \in Rest(t) /\ ~Idle(t)
      BY <2>1, <3>1 DEF Stepped
    <3>3. Over(Head(todo'[t]), Head(todo[t]))
      BY <3>2 DEF Stepped
    <3> QED
      BY <3>1, <3>3 DEF Over
  <2>2. CASE c # <<>>
    <3>1. Head(todo'[t]) = c[1] /\ c \in Seq(Frame)
      BY <2>2 DEF Stepped
    <3>2. 1 \in DOMAIN c
      BY <2>2, <3>1
    <3> QED
      BY <1>3, <2>2, <3>1, <3>2 DEF Now, Elements
  <2> QED
    BY <2>1, <2>2
<1> QED
  BY <1>2, <1>3

LEMMA OutputKept ==
    ASSUME OutputInv, NEW t \in Thread, NEW c, Stepped(t, c), UNCHANGED <<outLen, outBuf>>,
           Avoids(c, {"copy", "terminate", "deliver"})
    PROVE  OutputInv'
<1>1. \A n \in {"copy", "terminate", "deliver"} : n \in HeadNames
  BY DEF HeadNames
<1>2. \A n \in {"copy", "terminate", "deliver"} : ~Now(t, n)'
  BY <1>1, SteppedNow DEF Avoids
<1>3. \A n \in {"copy", "terminate", "deliver"}, u \in Thread : Now(u, n)' =>
         Now(u, n) /\ u # t /\ Arg(u, 1)' = Arg(u, 1) /\ Arg(u, 2)' = Arg(u, 2)
  BY <1>1, <1>2, SteppedNow
<1>4. \A u \in Copying' : u \in Copying /\ Arg(u, 1)' = Arg(u, 1) /\ Arg(u, 2)' = Arg(u, 2)
                          /\ Target(u)' = Target(u)
  BY <1>3 DEF Copying, Target
<1>5. \A u \in Thread : Closing(u)' => Closing(u) /\ Arg(u, 1)' = Arg(u, 1)
  BY <1>3 DEF Closing
<1>6. \A u \in Thread : Now(u, "deliver")' => Now(u, "deliver") /\ Arg(u, 1)' = Arg(u, 1)
  BY <1>3
<1> QED
  BY <1>4, <1>5, <1>6 DEF OutputInv

\* The steps that move an option on, and those that are at an end of loading.
OptionNames == {"getenv", "parse", "initialized", "quiet", "options_init", "process_done",
                "unload"}
ReadNames == {"get", "getenv", "parse", "initialized", "quiet", "options_init", "loading"}

\* A step that neither reads an option nor sets one. Loading may end, and begin again
\* when every option has been looked for.
LEMMA OptionsCarried ==
    ASSUME OptionsInv, NEW t \in Thread, NEW c, Stepped(t, c), Main \in Thread,
           UNCHANGED <<env, value, init, given, loaded, program>>,
           \A s \in Elements(c) : OptionStep(s) /\ s[1] # "options_init",
           NotAt(t, ReadNames \ {"loading"}),
           \/ preloading' = preloading /\ NotAt(t, {"loading"})
           \/ preloading' = FALSE
           \/ Ready,
           \A u \in Thread \ {Main} :
              life'[u] = life[u] \/ life[u] # "unborn" \/ "early" \in program[u] \/ Ready
    PROVE  OptionsInv'
<1>1. /\ \A u \in Thread \ {t} : Ahead(u)' = Ahead(u)
      /\ \A s \in Ahead(t) : s \in Ahead(t)' \/ (~Idle(t) /\ s = Head(todo[t]))
      /\ \A s \in Ahead(t)' : s \in Elements(c) \/ s \in Ahead(t)
  BY SteppedAhead
<1>2. Ready' <=> Ready
  BY DEF Ready
<1>3. \A o : EnvOf(o)' = EnvOf(o)
  BY DEF EnvOf
<1>4. \A s : OptionStep(s)' <=> OptionStep(s)
  BY <1>2, <1>3 DEF OptionStep
<1>5. \A u \in Thread : \A s \in Ahead(u)' : OptionStep(s)'
  BY <1>1, <1>4 DEF OptionsInv
<1>6. \A u \in Thread, n \in ReadNames \ {"loading"} : Has(u, n) => Has(u, n)'
  BY <1>1 DEF Has, NotAt
<1>7. \A u \in Thread, N \in SUBSET (ReadNames \ {"loading"}) : \A o : HasFor(u, N, o) => HasFor(u, N, o)'
  BY <1>1 DEF HasFor, NotAt
<1>8. \A o \in Option : ValueInv(o)'
  <2> TAKE o \in Option
  <2>1. ValueInv(o)
    BY DEF OptionsInv
  <2>2. \A u \in Thread : Has(u, "quiet") => Has(u, "quiet")'
    BY <1>6 DEF ReadNames
  <2>3. \A u \in Thread : HasFor(u, {"initialized"}, o) => HasFor(u, {"initialized"}, o)'
    BY <1>7 DEF ReadNames
  <2> QED
    BY <1>3, <2>1, <2>2, <2>3 DEF ValueInv
<1>9. LoadInv'
  <2>1. LoadInv
    BY DEF OptionsInv
  <2>2. Has(Main, "options_init") => Has(Main, "options_init")'
    BY <1>6 DEF ReadNames
  <2>3. NotAt(t, {"loading"}) /\ Has(Main, "loading") => Has(Main, "loading")'
    BY <1>1 DEF Has, NotAt
  <2>4. \A o : HasFor(Main, {"get", "getenv", "parse", "initialized"}, o)
                  => HasFor(Main, {"get", "getenv", "parse", "initialized"}, o)'
    BY <1>7 DEF ReadNames
  <2>5. Has(Main, "options_init")' => Has(Main, "options_init")
    BY <1>1 DEF Has
  <2> QED
    BY <1>2, <2>1, <2>2, <2>3, <2>4, <2>5 DEF LoadInv
<1> QED
  BY <1>5, <1>8, <1>9 DEF OptionsInv

LEMMA OptionsKept ==
    ASSUME OptionsInv, NEW t \in Thread, NEW c, Stepped(t, c),
           UNCHANGED <<env, preloading, value, init, given, loaded, program>>,
           Avoids(c, OptionNames), NotAt(t, ReadNames), Main \in Thread,
           \A u \in Thread \ {Main} : life'[u] = life[u] \/ life[u] # "unborn"
    PROVE  OptionsInv'
<1>1. \A s \in Elements(c) : OptionStep(s) /\ s[1] # "options_init"
  BY DEF Avoids, OptionNames, OptionStep
<1>2. NotAt(t, ReadNames \ {"loading"}) /\ NotAt(t, {"loading"})
  BY DEF NotAt, ReadNames
<1> QED
  BY <1>1, <1>2, OptionsCarried

\* The steps that move thread data on.
DataNames == {"cached", "exchange", "os_alloc", "fill", "adopt", "put", "put_cas", "thread_done",
              "heap_done", "destructors"}

LEMMA HandKept ==
    ASSUME NEW t \in Thread, NEW c, Stepped(t, c),
           Avoids(c, {"fill", "adopt", "put", "put_cas"}),
           NotAt(t, {"fill", "adopt", "put", "put_cas"})
    PROVE  \A u \in Thread : \A d : InHand(u, d)' <=> InHand(u, d)
<1>1. /\ \A u \in Thread \ {t} : Ahead(u)' = Ahead(u)
      /\ \A s \in Ahead(t) : s \in Ahead(t)' \/ (~Idle(t) /\ s = Head(todo[t]))
      /\ \A s \in Ahead(t)' : s \in Elements(c) \/ s \in Ahead(t)
  BY SteppedAhead
<1>2. \A d : InHand(t, d) => InHand(t, d)'
  BY <1>1 DEF InHand, NotAt
<1>3. \A d : InHand(t, d)' => InHand(t, d)
  BY <1>1 DEF InHand, Avoids
<1>4. \A u \in Thread \ {t} : \A d : InHand(u, d)' <=> InHand(u, d)
  BY <1>1 DEF InHand
<1> QED
  BY <1>2, <1>3, <1>4

LEMMA PlacesKept ==
    ASSUME \A u \in Thread : \A d : InHand(u, d)' <=> InHand(u, d), UNCHANGED <<cache, default>>
    PROVE  \A d : Places(d)' = Places(d)
BY DEF Places

\* What holds of the heap of u is kept if its heap and its owner are.
LEMMA HeapKept ==
    ASSUME NEW t \in Thread, NEW c, Stepped(t, c), NEW u \in Thread, HeapInv(u),
           default'[u] = default[u], keyValue'[u] = keyValue[u], life'[u] = life[u], key' = key,
           default[u] \in Td => owner'[default[u]] = u,
           \A s \in Ahead(u) : s[1] = "adopt" => owner'[s[2]] = u,
           u = t => /\ \A s \in Elements(c) : DataStep(t, s)'
                    /\ Ending(t) => Ending(t)' \/ default[t] \notin Td
                    /\ NotAt(t, {"destructors"})
                    /\ Idle(t) => c = <<>> \/ life[t] = "runs"
    PROVE  HeapInv(u)'
<1>1. /\ \A v \in Thread \ {t} : Ahead(v)' = Ahead(v)
      /\ \A s \in Ahead(t) : s \in Ahead(t)' \/ (~Idle(t) /\ s = Head(todo[t]))
      /\ \A s \in Ahead(t)' : s \in Elements(c) \/ s \in Ahead(t)
      /\ u # t => (Idle(u)' <=> Idle(u))
  <2>1. u # t => (Idle(u)' <=> Idle(u))
    BY DEF Stepped, Idle
  <2> QED
    BY <2>1, SteppedAhead
<1>2. Has(u, "destructors") => Has(u, "destructors")'
  BY <1>1 DEF Has, NotAt
<1>3. Ending(u) => Ending(u)' \/ default[u] \notin Td
  BY <1>1 DEF Ending, Has
<1>4. \A s \in Ahead(u)' : DataStep(u, s)'
  <2> TAKE s \in Ahead(u)'
  <2>1. CASE s \in Ahead(u)
    BY <1>3, <2>1 DEF HeapInv, DataStep
  <2>2. CASE s \notin Ahead(u)
    BY <1>1, <2>2
  <2> QED
    BY <2>1, <2>2
<1>5. Idle(u)' => ~Has(u, "destructors")'
  BY DEF Idle, Has, Ahead
<1>6. life[u] # "runs" /\ ~Idle(u)' => Has(u, "destructors")'
  <2>1. u = t /\ Idle(t) /\ ~Idle(t)' => life[t] = "runs"
    <3>1. Idle(t) /\ c = <<>> => Idle(t)'
      BY DEF Stepped
    <3> QED
      BY <3>1
  <2> QED
    BY <1>1, <1>2, <2>1 DEF HeapInv
<1>7. life[u] # "runs" /\ Idle(u)' => default[u] \notin Td
  <2>1. life[u] # "runs" => Idle(u) \/ Has(u, "destructors")
    BY DEF HeapInv
  <2> QED
    BY <1>2, <1>5, <2>1 DEF HeapInv
<1> QED
  BY <1>3, <1>4, <1>6, <1>7 DEF HeapInv

\* What holds of the place of d is kept with its places.
LEMMA PlaceKept ==
    ASSUME NEW d, PlaceInv(d), Places(d)' = Places(d), memid'[d] = memid[d],
           d \in mapped' <=> d \in mapped
    PROVE  PlaceInv(d)'
BY DEF PlaceInv

\* A step that leaves thread data where they are.
LEMMA DataMoved ==
    ASSUME DataInv, NEW t \in Thread, NEW c, Stepped(t, c),
           UNCHANGED <<default, keyValue, key, owner, cache, mapped, memid, life>>,
           Avoids(c, {"fill", "adopt", "put", "put_cas"}),
           NotAt(t, {"fill", "adopt", "put", "put_cas", "destructors"}),
           \A s \in Elements(c) : DataStep(t, s)',
           Ending(t) => Ending(t)' \/ default[t] \notin Td,
           Idle(t) => c = <<>> \/ life[t] = "runs"
    PROVE  DataInv'
<1>1. NotAt(t, {"fill", "adopt", "put", "put_cas"}) /\ NotAt(t, {"destructors"})
  BY DEF NotAt
<1>2. \A u \in Thread : \A d : InHand(u, d)' <=> InHand(u, d)
  BY <1>1, HandKept
<1>3. \A d : Places(d)' = Places(d)
  BY <1>2, PlacesKept
<1>4. \A d \in Td : PlaceInv(d)'
  BY <1>3, PlaceKept DEF DataInv
<1>5. \A u \in Thread : HeapInv(u)'
  <2> TAKE u \in Thread
  <2>1. HeapInv(u)
    BY DEF DataInv
  <2>2. default[u] \in Td => owner[default[u]] = u
    BY <2>1 DEF HeapInv
  <2>3. \A s \in Ahead(u) : s[1] = "adopt" => owner[s[2]] = u
    BY <2>1 DEF HeapInv, DataStep
  <2> QED
    BY <1>1, <2>1, <2>2, <2>3, HeapKept
<1> QED
  BY <1>4, <1>5 DEF DataInv

LEMMA DataKept ==
    ASSUME DataInv, NEW t \in Thread, NEW c, Stepped(t, c),
           UNCHANGED <<default, keyValue, key, owner, cache, mapped, memid, life>>,
           Avoids(c, DataNames),
           NotAt(t, {"fill", "adopt", "put", "put_cas", "thread_done", "heap_done", "destructors"}),
           Idle(t) => c = <<>> \/ life[t] = "runs"
    PROVE  DataInv'
<1>1. /\ Avoids(c, {"fill", "adopt", "put", "put_cas"})
      /\ NotAt(t, {"fill", "adopt", "put", "put_cas", "destructors"})
  BY DEF Avoids, NotAt, DataNames
<1>2. \A s \in Elements(c) : DataStep(t, s)'
  BY DEF Avoids, DataStep, DataNames, OwnNames
<1>3. Ending(t) => Ending(t)'
  <2>1. \A s \in Ahead(t) : s \in Ahead(t)' \/ (~Idle(t) /\ s = Head(todo[t]))
    BY SteppedAhead
  <2> QED
    BY <2>1 DEF Ending, Has, NotAt
<1> QED
  BY <1>1, <1>2, <1>3, DataMoved

\* The steps that the start of the process consists of.
BootNames == {"key", "auto_done", "heap_main_init", "process_init"}

LEMMA BootKept ==
    ASSUME BootInv, NEW t \in Thread, NEW c, Stepped(t, c), Main \in Thread,
           UNCHANGED <<once, tlsDone, key, mainId, loaded>>,
           once \/ loaded \/ default'[Main] = default[Main], NotAt(t, BootNames),
           \A u \in Thread : life'[u] = "unborn" \/ life[u] # "unborn",
           Idle(t) => c = <<>> \/ life[t] # "unborn",
           (t = Main /\ ~once /\ ~loaded) => \A s \in Elements(c) : s[1] \in EarlyNames \ {"heap_init"}
    PROVE  BootInv'
<1>1. /\ \A u \in Thread \ {t} : Ahead(u)' = Ahead(u)
      /\ \A s \in Ahead(t) : s \in Ahead(t)' \/ (~Idle(t) /\ s = Head(todo[t]))
      /\ \A s \in Ahead(t)' : s \in Elements(c) \/ s \in Ahead(t)
      /\ \A u \in Thread \ {t} : todo'[u] = todo[u]
  BY SteppedAhead DEF Stepped
<1>2. \A n \in BootNames : Has(Main, n) => Has(Main, n)'
  BY <1>1 DEF Has, NotAt
<1>3. \A u \in Thread \ {Main} : life'[u] # "unborn" \/ ~Idle(u)' => Started'
  <2> TAKE u \in Thread \ {Main}
  <2>1. ~Idle(u)' => life[u] # "unborn" \/ ~Idle(u)
    <3>1. Idle(t) /\ c = <<>> => Idle(t)'
      BY DEF Stepped
    <3>2. u # t => (Idle(u)' <=> Idle(u))
      BY <1>1 DEF Idle
    <3> QED
      BY <3>1, <3>2
  <2>2. Started' <=> Started
    BY DEF Started
  <2> QED
    BY <2>1, <2>2 DEF BootInv
<1>4. ASSUME ~once, ~loaded
      PROVE  /\ \A s \in Ahead(Main)' : s[1] \in EarlyNames
             /\ Has(Main, "heap_init")' => Now(Main, "process_init")'
  <2>1. /\ \A s \in Ahead(Main) : s[1] \in EarlyNames
        /\ Has(Main, "heap_init") => Now(Main, "process_init")
    BY <1>4 DEF BootInv
  <2>2. CASE t = Main
    <3>1. \A s \in Elements(c) : s[1] \in EarlyNames \ {"heap_init"}
      BY <1>4, <2>2
    <3>2. ~Now(Main, "process_init")
      BY <2>2 DEF Now, NotAt, BootNames, Idle
    <3>3. \A s \in Ahead(Main) : s[1] # "heap_init"
      BY <2>1, <3>2 DEF Has
    <3> QED
      BY <1>1, <2>1, <2>2, <3>1, <3>3 DEF Has
  <2>3. CASE t # Main
    <3>1. todo'[Main] = todo[Main] /\ Ahead(Main)' = Ahead(Main)
      BY <1>1, <2>3
    <3> QED
      BY <2>1, <3>1 DEF Has, Now
  <2> QED
    BY <2>2, <2>3
<1>5. /\ Has(Main, "key") => Has(Main, "key")'
      /\ Has(Main, "auto_done") => Has(Main, "auto_done")'
      /\ Has(Main, "heap_main_init") => Has(Main, "heap_main_init")'
      /\ Has(Main, "process_init") => Has(Main, "process_init")'
  BY <1>2 DEF BootNames
<1> QED
  BY <1>3, <1>4, <1>5 DEF BootInv

(***************************************************************************)
(* The statistics.                                                         *)
(***************************************************************************)
\* What the head of todo[t] is, with the types of its arguments.
LEMMA NowTyped ==
    ASSUME StackInv, NEW t \in Thread, NEW n, Now(t, n)
    PROVE  /\ ~Idle(t) /\ Head(todo[t]) \in Frame /\ Head(todo[t])[1] = n
           /\ Typed(Head(todo[t])) /\ Head(todo[t]) \in Ahead(t)
<1>1. todo[t] \in Seq(Frame) /\ todo[t] # <<>> /\ Head(todo[t])[1] = n
  BY DEF StackInv, Now
<1>2. Head(todo[t]) \in Frame /\ Head(todo[t]) = todo[t][1] /\ 1 \in DOMAIN todo[t]
  BY <1>1
<1> QED
  BY <1>1, <1>2, FrameArgs DEF Idle, Ahead

StatNames == CountNames \cup {"stats_reset"}

\* A step of the statistics calls only steps of the statistics.
StatStepped(t) == \E c : /\ Stepped(t, c) /\ ~Idle(t) /\ Head(todo[t])[1] \in StatNames
                         /\ \A s \in Elements(c) : s[1] \in CountNames

LEMMA StatThen ==
    ASSUME StackInv, NEW t \in Thread, NEW n \in StatNames, Now(t, n), NEW c, May(t, c), Then(t, c),
           \A s \in Elements(c) : s[1] \in CountNames
    PROVE  StatStepped(t)
<1>1. ~Idle(t) /\ Head(todo[t])[1] = n
  BY NowTyped
<1>2. \A s \in Elements(c) : Closed(Head(todo[t])[1], s[1])
  BY <1>1 DEF Closed, CountNames, StatNames, DoneNames, MessageNames
<1>3. Stepped(t, c)
  BY <1>1, <1>2, ThenStepped
<1> QED
  BY <1>1, <1>3 DEF StatStepped

\* The atomic load of a peak calls at most a compare-and-swap.
LEMMA RaiseStepped ==
    ASSUME StackInv, StatsTypeOK, NEW t \in Thread, NEW n \in {"peak", "peakCas"}, Now(t, n),
           NEW s \in Stat, NEW x \in Int, Raise(t, s, x)
    PROVE  StatStepped(t)
<1> DEFINE cas == <<"peakCas", s, total[s].peak, x>>
<1>1. n \in StatNames
  BY DEF StatNames, CountNames
<1>2. total[s].peak \in Int
  BY DEF StatsTypeOK, Count, Field
<1>3. CASE total[s].peak < x
  <2>1. cas \in Frame /\ cas[1] = "peakCas"
    BY <1>2, FrameStats
  <2>2. Then(t, <<cas>>)
    BY <1>3 DEF Raise
  <2> HIDE DEF cas
  <2>3. May(t, <<cas>>) /\ Elements(<<cas>>) = {cas}
    BY <2>1, MayOne DEF MainNames
  <2>4. \A y \in Elements(<<cas>>) : y[1] \in CountNames
    BY <2>1, <2>3 DEF CountNames
  <2> QED
    BY <1>1, <2>2, <2>3, <2>4, StatThen
<1>4. CASE ~(total[s].peak < x)
  <2>1. Then(t, <<>>)
    BY <1>4 DEF Raise
  <2> QED
    BY <1>1, <2>1, MayNone, StatThen
<1> QED
  BY <1>3, <1>4

\* Every step of the statistics keeps their types.
LEMMA StatSteps ==
    ASSUME StackInv, StatsTypeOK, NEW t \in Thread, StatStep(t)
    PROVE  StatStepped(t) /\ StatsTypeOK'
<1>n. {"stat", "peak", "peakCas", "flow", "merge", "add", "clear", "stats_reset"} \subseteq StatNames
  BY DEF StatNames, CountNames
<1>z. Zero \in Count /\ \A s \in Stat : total[s] \in [Field -> Int]
  BY DEF Zero, Count, StatsTypeOK
<1>1. CASE StatUpdate(t)
  <2> DEFINE s == Arg(t, 1)
             n == Arg(t, 2)
             x == total[s].current + n
             a == <<"peak", s, x>>
             b == <<"flow", s, n>>
  <2>1. Now(t, "stat") /\ total' = [total EXCEPT ![s].current = x] /\ local' = local /\ Then(t, <<a, b>>)
    BY <1>1 DEF StatUpdate
  <2>2. s \in Stat /\ n \in Int
    BY <2>1, NowTyped DEF Typed, Arg
  <2>3. x \in Int
    BY <1>z, <2>2 DEF Field
  <2>4. StatsTypeOK'
    BY <2>1, <2>2, <2>3 DEF StatsTypeOK, Count, Field
  <2>5. a \in Frame /\ b \in Frame /\ a[1] = "peak" /\ b[1] = "flow"
    BY <2>2, <2>3, FrameStats
  <2> HIDE DEF s, n, x, a, b
  <2>6. May(t, <<a, b>>) /\ Elements(<<a, b>>) = {a, b}
    <3>1. Over(b, a) /\ {a[1], b[1]} \cap MainNames = {}
      BY <2>5 DEF Over, HeadNames, MainNames
    <3> QED
      BY <2>5, <3>1, MayTwo
  <2>7. \A y \in Elements(<<a, b>>) : y[1] \in CountNames
    BY <2>5, <2>6 DEF CountNames
  <2> QED
    BY <1>n, <2>1, <2>4, <2>6, <2>7, StatThen
<1>2. CASE PeakLoad(t)
  <2>1. Now(t, "peak") /\ Raise(t, Arg(t, 1), Arg(t, 2)) /\ UNCHANGED statVars
    BY <1>2 DEF PeakLoad
  <2>2. Arg(t, 1) \in Stat /\ Arg(t, 2) \in Int
    BY <2>1, NowTyped DEF Typed, Arg
  <2> QED
    BY <2>1, <2>2, RaiseStepped DEF StatsTypeOK, statVars
<1>3. CASE PeakCas(t)
  <2>1. Now(t, "peakCas") /\ local' = local
    BY <1>3 DEF PeakCas
  <2>2. Arg(t, 1) \in Stat /\ Arg(t, 2) \in Int /\ Arg(t, 3) \in Int
    BY <2>1, NowTyped DEF Typed, Arg
  <2>3. CASE total' = [total EXCEPT ![Arg(t, 1)].peak = Arg(t, 3)] /\ Then(t, <<>>)
    <3>1. StatsTypeOK'
      BY <2>1, <2>2, <2>3 DEF StatsTypeOK, Count, Field
    <3>2. StatStepped(t)
      BY <1>n, <2>1, <2>3, MayNone, StatThen
    <3> QED
      BY <3>1, <3>2
  <2>4. CASE total' = total /\ Raise(t, Arg(t, 1), Arg(t, 3))
    BY <2>1, <2>2, <2>4, RaiseStepped DEF StatsTypeOK
  <2> QED
    BY <1>3, <2>3, <2>4 DEF PeakCas
<1>4. CASE StatFlow(t)
  <2> DEFINE s == Arg(t, 1)
             n == Arg(t, 2)
             f == Flow(n)
  <2>1. /\ Now(t, "flow") /\ total' = [total EXCEPT ![s][f] = @ + Amount(n)]
        /\ local' = local /\ Then(t, <<>>)
    BY <1>4 DEF StatFlow
  <2>2. s \in Stat /\ n \in Int /\ f \in Field /\ Amount(n) \in Int
    BY <2>1, NowTyped DEF Typed, Arg, Flow, Amount, Field
  <2> HIDE DEF s, n, f
  <2>3. StatsTypeOK'
    BY <1>z, <2>1, <2>2 DEF StatsTypeOK, Count
  <2> QED
    BY <1>n, <2>1, <2>3, MayNone, StatThen
<1>5. CASE StatsMerge(t)
  <2> DEFINE d == Arg(t, 1)
             a == <<"add", d, "allocated">>
             b == <<"add", d, "current">>
             e == <<"add", d, "freed">>
             g == <<"add", d, "peak">>
             k == <<"clear", d>>
  <2>1. Now(t, "merge") /\ UNCHANGED statVars
        /\ (Then(t, <<a, b, e, g>> \o <<k>>) \/ Then(t, <<>> \o <<k>>))
    BY <1>5 DEF StatsMerge
  <2>2. d \in Tld
    BY <2>1, NowTyped DEF Typed, Arg
  <2>3. /\ {a, b, e, g, k} \subseteq Frame /\ k[1] = "clear"
        /\ a[1] = "add" /\ b[1] = "add" /\ e[1] = "add" /\ g[1] = "add"
    BY <2>2, FrameStats DEF Field
  <2> HIDE DEF a, b, d, e, g, k
  <2>4. May(t, <<a, b, e, g>>) /\ Elements(<<a, b, e, g>>) = {a, b, e, g}
    <3>1. \A x, y \in {a, b, e, g} : Over(x, y)
      BY <2>3 DEF Over, HeadNames
    <3>2. {a[1], b[1], e[1], g[1]} \cap MainNames = {}
      BY <2>3 DEF MainNames
    <3>3. a \in Frame /\ b \in Frame /\ e \in Frame /\ g \in Frame
      BY <2>3
    <3> QED
      BY <3>1, <3>2, <3>3, MayFour
  <2>5. May(t, <<k>>) /\ Elements(<<k>>) = {k}
    BY <2>3, MayOne DEF MainNames
  <2>6. May(t, <<a, b, e, g>> \o <<k>>) /\ Elements(<<a, b, e, g>> \o <<k>>) = {a, b, e, g} \cup {k}
    <3>1. \A x \in {a, b, e, g} : Over(k, x)
      BY <2>3 DEF Over, HeadNames
    <3> QED
      BY <2>4, <2>5, <3>1, MayJoin
  <2>7. May(t, <<>> \o <<k>>) /\ Elements(<<>> \o <<k>>) = {} \cup {k}
    BY <2>5, MayNone, MayJoin
  <2>8. \A x \in {a, b, e, g, k} : x[1] \in CountNames
    BY <2>3 DEF CountNames
  <2>9. StatStepped(t)
    <3>1. CASE Then(t, <<a, b, e, g>> \o <<k>>)
      BY <1>n, <2>1, <2>6, <2>8, <3>1, StatThen
    <3>2. CASE Then(t, <<>> \o <<k>>)
      BY <1>n, <2>1, <2>7, <2>8, <3>2, StatThen
    <3> QED
      BY <2>1, <3>1, <3>2
  <2> QED
    BY <2>1, <2>9 DEF StatsTypeOK, statVars
<1>6. CASE StatAdd(t)
  <2> DEFINE d == Arg(t, 1)
             f == Arg(t, 2)
  <2>1. /\ Now(t, "add") /\ total' = [total EXCEPT !["pages"][f] = @ + local[d][f]]
        /\ local' = local /\ Then(t, <<>>)
    BY <1>6 DEF StatAdd
  <2>2. d \in Tld /\ f \in Field
    BY <2>1, NowTyped DEF Typed, Arg
  <2> HIDE DEF d, f
  <2>3. local[d][f] \in Int /\ "pages" \in Stat
    BY <2>2 DEF StatsTypeOK, Count, Stat
  <2>4. StatsTypeOK'
    BY <1>z, <2>1, <2>2, <2>3 DEF StatsTypeOK, Count
  <2> QED
    BY <1>n, <2>1, <2>4, MayNone, StatThen
<1>7. CASE StatsClear(t)
  <2>1. /\ Now(t, "clear") /\ local' = [local EXCEPT ![Arg(t, 1)] = Zero]
        /\ total' = total /\ Then(t, <<>>)
    BY <1>7 DEF StatsClear
  <2>2. StatsTypeOK'
    BY <1>z, <2>1 DEF StatsTypeOK
  <2> QED
    BY <1>n, <2>1, <2>2, MayNone, StatThen
<1>8. CASE StatsReset(t)
  <2>1. /\ Now(t, "stats_reset") /\ local' = [local EXCEPT ![Arg(t, 1)] = Zero]
        /\ total' = [s \in Stat |-> Zero] /\ Then(t, <<>>)
    BY <1>8 DEF StatsReset
  <2>2. StatsTypeOK'
    BY <1>z, <2>1 DEF StatsTypeOK
  <2> QED
    BY <1>n, <2>1, <2>2, MayNone, StatThen
<1> QED
  BY <1>1, <1>2, <1>3, <1>4, <1>5, <1>6, <1>7, <1>8 DEF StatStep

(***************************************************************************)
(* Options and messages.                                                   *)
(***************************************************************************)
TextNames == MessageNames \cup {"limits", "flush", "terminate", "deliver", "add_stderr"}

\* t does the step it is at, named n, and calls c.
Does(t, n, c) == Now(t, n) /\ ~Idle(t) /\ Head(todo[t])[1] = n /\ Stepped(t, c)

LEMMA MessageThen ==
    ASSUME StackInv, NEW t \in Thread, NEW n \in TextNames, Now(t, n), NEW c, May(t, c), Then(t, c),
           \A s \in Elements(c) : s[1] \in MessageNames \/ (n \notin MessageNames /\ s[1] \in TextNames)
    PROVE  Does(t, n, c)
<1>1. ~Idle(t) /\ Head(todo[t])[1] = n
  BY NowTyped
<1>2. \A s \in Elements(c) : Closed(Head(todo[t])[1], s[1])
  BY <1>1 DEF Closed, CountNames, TextNames, DoneNames, MessageNames
<1>3. Stepped(t, c)
  BY <1>1, <1>2, ThenStepped
<1> QED
  BY <1>1, <1>3 DEF Does

LEMMA AheadTyped ==
    ASSUME StackInv
    PROVE  \A u \in Thread : \A s \in Ahead(u) : s \in Frame /\ Typed(s)
<1> TAKE u \in Thread
<1>1. todo[u] \in Seq(Frame)
  BY DEF StackInv
<1>2. \A i \in DOMAIN todo[u] : todo[u][i] \in Frame
  BY <1>1
<1> QED
  BY <1>2, FrameArgs DEF Ahead

\* A step for the option o keeps what holds of options if it keeps what holds of o.
OptionMoved(t, o, c) ==
    /\ UNCHANGED <<env, preloading, given, loaded, program, life>>
    /\ \A p \in Option \ {o} : value'[p] = value[p] /\ init'[p] = init[p]
    /\ init[o] # "UNINIT" => init'[o] # "UNINIT"
    /\ \A s \in Elements(c) : OptionStep(s)' /\ s[1] # "options_init"
    /\ ValueInv(o)'
    /\ value[o] = EnvOf(o) /\ EnvOf(o) \notin {Absent, Bogus} => value'[o] = EnvOf(o)
    /\ t = Main /\ loaded => \/ init'[o] # "UNINIT" \/ Has(Main, "options_init")
                             \/ HasFor(Main, {"get", "getenv", "parse", "initialized"}, o)'

LEMMA OptionsMove ==
    ASSUME OptionsInv, StackInv, NEW t \in Thread, Main \in Thread, NEW o \in Option, NEW c,
           NEW n \in {"get", "getenv", "parse", "initialized", "quiet"}, Does(t, n, c),
           IF n = "quiet" THEN o = "verbose" ELSE Head(todo[t])[2] = o,
           OptionMoved(t, o, c)
    PROVE  OptionsInv'
<1>1. /\ \A u \in Thread \ {t} : Ahead(u)' = Ahead(u)
      /\ \A s \in Ahead(t) : s \in Ahead(t)' \/ (~Idle(t) /\ s = Head(todo[t]))
      /\ \A s \in Ahead(t)' : s \in Elements(c) \/ s \in Ahead(t)
      /\ ~Idle(t) /\ Head(todo[t])[1] = n
  BY SteppedAhead DEF Does
<1>2. Ready => Ready'
  BY DEF Ready, OptionMoved
<1>3. \A p : EnvOf(p)' = EnvOf(p)
  BY DEF EnvOf, OptionMoved
<1>4. \A s : OptionStep(s) /\ (s[1] = "initialized" => s[2] \in Option) => OptionStep(s)'
  <2> TAKE s
  <2> SUFFICES ASSUME OptionStep(s), s[1] = "initialized" => s[2] \in Option
               PROVE  OptionStep(s)'
    OBVIOUS
  <2>1. given' = given
    BY DEF OptionMoved
  <2>2. s[1] = "initialized" /\ given[s[2]] = Absent => value'[s[2]] = EnvOf(s[2])
    BY DEF OptionStep, OptionMoved
  <2> QED
    BY <1>2, <1>3, <2>1, <2>2 DEF OptionStep
<1>5. \A u \in Thread : \A s \in Ahead(u) : OptionStep(s) /\ (s[1] = "initialized" => s[2] \in Option)
  BY AheadTyped DEF OptionsInv, Typed
<1>6. \A u \in Thread : \A s \in Ahead(u)' : OptionStep(s)'
  <2> TAKE u \in Thread
  <2> TAKE s \in Ahead(u)'
  <2>1. CASE s \in Ahead(u)
    BY <1>4, <1>5, <2>1
  <2>2. CASE s \notin Ahead(u)
    BY <1>1, <2>2 DEF OptionMoved
  <2> QED
    BY <2>1, <2>2
<1>7. \A u \in Thread : \A m : m # n /\ Has(u, m) => Has(u, m)'
  BY <1>1 DEF Has
<1>8. \A u \in Thread : \A N, p : HasFor(u, N, p) /\ (n \notin N \/ Head(todo[t])[2] # p) => HasFor(u, N, p)'
  BY <1>1 DEF HasFor
<1>9. \A p \in Option : ValueInv(p)'
  <2> TAKE p \in Option
  <2>1. CASE p = o
    BY <2>1 DEF OptionMoved
  <2>2. CASE p # o
    <3>1. ValueInv(p) /\ given' = given /\ value'[p] = value[p] /\ init'[p] = init[p]
      BY <2>2 DEF OptionsInv, OptionMoved
    <3>2. \A u \in Thread : p = "verbose" /\ Has(u, "quiet") => Has(u, "quiet")'
      BY <1>7, <2>2
    <3>3. \A u \in Thread : HasFor(u, {"initialized"}, p) => HasFor(u, {"initialized"}, p)'
      BY <1>8, <2>2
    <3> QED
      BY <1>3, <3>1, <3>2, <3>3 DEF ValueInv
  <2> QED
    BY <2>1, <2>2
<1>10. LoadInv'
  <2> DEFINE N == {"get", "getenv", "parse", "initialized"}
  <2>1. LoadInv /\ UNCHANGED <<loaded, preloading, program, life>>
    BY DEF OptionsInv, OptionMoved
  <2>2. /\ Has(Main, "options_init") => Has(Main, "options_init")'
        /\ Has(Main, "loading") => Has(Main, "loading")'
        /\ Has(Main, "options_init")' => Has(Main, "options_init")
    <3>1. Has(Main, "options_init")' => Has(Main, "options_init")
      BY <1>1 DEF Has, OptionMoved
    <3> QED
      BY <1>7, <3>1
  <2>3. ASSUME loaded, NEW p \in Option
        PROVE  init'[p] # "UNINIT" \/ Has(Main, "options_init")' \/ HasFor(Main, N, p)'
    <3>1. init[p] # "UNINIT" \/ Has(Main, "options_init") \/ HasFor(Main, N, p)
      BY <2>1, <2>3 DEF LoadInv
    <3>2. init[p] # "UNINIT" => init'[p] # "UNINIT"
      BY DEF OptionMoved
    <3>3. CASE t = Main /\ p = o
      BY <2>2, <2>3, <3>3 DEF OptionMoved
    <3>4. CASE t # Main
      <4>1. HasFor(Main, N, p) => HasFor(Main, N, p)'
        BY <1>1, <3>4 DEF HasFor
      <4> QED
        BY <2>2, <3>1, <3>2, <4>1
    <3>5. CASE p # o
      <4>1. HasFor(Main, N, p) => HasFor(Main, N, p)'
        BY <1>8, <3>5
      <4> QED
        BY <2>2, <3>1, <3>2, <4>1
    <3> QED
      BY <3>3, <3>4, <3>5
  <2> QED
    BY <1>2, <2>1, <2>2, <2>3 DEF LoadInv
<1> QED
  BY <1>6, <1>9, <1>10 DEF OptionsInv

\* What every step of a message or an option needs and gives.
MessageContext(t) == /\ StackInv /\ MessagesTypeOK /\ ChoiceInv /\ OptionsInv /\ OutputInv /\ t \in Thread
                     /\ UNCHANGED <<loaded, program, life>>
MessageKeeps(t) == /\ MessagesTypeOK' /\ ChoiceInv' /\ OptionsInv' /\ OutputInv'
                   /\ \E c, n : /\ Does(t, n, c) /\ n \in TextNames \cup {"options_init"}
                                /\ \A s \in Elements(c) : s[1] \in TextNames

\* A step that leaves options and output as they are, and calls no step of theirs.
LEMMA TextKeeps ==
    ASSUME NEW t, MessageContext(t), NEW c, NEW n \in TextNames, Does(t, n, c),
           MessagesTypeOK', UNCHANGED <<env, preloading, value, init, given, outLen, outBuf>>,
           \A s \in Elements(c) : s[1] \in TextNames \ {"getenv", "parse", "initialized", "quiet",
                                                        "copy", "terminate", "deliver"},
           n \notin {"get", "getenv", "parse", "initialized", "quiet"}
    PROVE  MessageKeeps(t)
<1>1. /\ OutputInv /\ OptionsInv /\ t \in Thread /\ Stepped(t, c) /\ Main \in Thread
      /\ UNCHANGED <<loaded, program, life>> /\ ChoiceInv
  BY ProcessAssumption DEF MessageContext, Does
<1>2. /\ Avoids(c, {"copy", "terminate", "deliver"}) /\ Avoids(c, OptionNames)
  BY DEF Avoids, OptionNames, TextNames, MessageNames
<1>3. NotAt(t, ReadNames)
  BY DEF NotAt, ReadNames, Does, TextNames, MessageNames
<1>4. OutputInv'
  BY <1>1, <1>2, OutputKept
<1>5. OptionsInv'
  BY <1>1, <1>2, <1>3, OptionsKept
<1> QED
  BY <1>1, <1>4, <1>5 DEF MessageKeeps, ChoiceInv

LEMMA KeepMessage == ASSUME NEW t, MessageContext(t), Message(t) PROVE MessageKeeps(t)
<1> DEFINE k == Arg(t, 1)
           a == <<"get", "verbose">>
           b == <<"verbose?", k>>
<1>1. Now(t, "message") /\ Then(t, <<a, b>>) /\ UNCHANGED messageVars /\ t \in Thread /\ StackInv
  BY DEF Message, MessageContext
<1>2. k \in Kind
  BY <1>1, NowTyped DEF Typed, Arg
<1>3. a \in Frame /\ b \in Frame /\ a[1] = "get" /\ b[1] = "verbose?"
  BY <1>2, FrameText, MessagesAssumption
<1> HIDE DEF k, a, b
<1>4. May(t, <<a, b>>) /\ Elements(<<a, b>>) = {a, b}
  <2>1. Over(b, a) /\ {a[1], b[1]} \cap MainNames = {}
    BY <1>3 DEF Over, HeadNames, MainNames
  <2> QED
    BY <1>3, <2>1, MayTwo
<1>5. "message" \in TextNames /\ \A s \in {a, b} : s[1] \in MessageNames
  BY <1>3 DEF TextNames, MessageNames
<1>6. Does(t, "message", <<a, b>>)
  BY <1>1, <1>4, <1>5, MessageThen
<1>7. MessagesTypeOK'
  BY <1>1 DEF messageVars, MessagesTypeOK, MessageContext
<1>8. \A s \in {a, b} : s[1] \in TextNames \ {"getenv", "parse", "initialized", "quiet",
                                              "copy", "terminate", "deliver"}
  BY <1>3 DEF TextNames, MessageNames
<1> QED
  BY <1>1, <1>4, <1>5, <1>6, <1>7, <1>8, TextKeeps DEF messageVars

LEMMA KeepIfVerbose == ASSUME NEW t, MessageContext(t), IfVerbose(t) PROVE MessageKeeps(t)
<1> DEFINE k == Arg(t, 1)
           a == <<"get", "show_errors">>
           b == <<"limit?", k>>
           f == <<"fputs">>
<1>1. /\ Now(t, "verbose?") /\ UNCHANGED messageVars /\ t \in Thread /\ StackInv
      /\ Then(t, <<f>>) \/ Then(t, <<a, b>>)
  BY DEF IfVerbose, MessageContext
<1>2. k \in Kind
  BY <1>1, NowTyped DEF Typed, Arg
<1>3. /\ a \in Frame /\ b \in Frame /\ f \in Frame
      /\ a[1] = "get" /\ b[1] = "limit?" /\ f[1] = "fputs"
  BY <1>2, FrameText, FrameLife, MessagesAssumption
<1> HIDE DEF k, a, b, f
<1>4. May(t, <<a, b>>) /\ Elements(<<a, b>>) = {a, b}
  <2>1. Over(b, a) /\ {a[1], b[1]} \cap MainNames = {}
    BY <1>3 DEF Over, HeadNames, MainNames
  <2> QED
    BY <1>3, <2>1, MayTwo
<1>5. May(t, <<f>>) /\ Elements(<<f>>) = {f}
  BY <1>3, MayOne DEF MainNames
<1>6. "verbose?" \in TextNames /\ \A s \in {a, b, f} : s[1] \in MessageNames
  BY <1>3 DEF TextNames, MessageNames
<1>7. MessagesTypeOK'
  BY <1>1 DEF messageVars, MessagesTypeOK, MessageContext
<1>8. \A s \in {a, b, f} : s[1] \in TextNames \ {"getenv", "parse", "initialized", "quiet",
                                                 "copy", "terminate", "deliver"}
  BY <1>3 DEF TextNames, MessageNames
<1>9. CASE Then(t, <<f>>)
  <2>1. Does(t, "verbose?", <<f>>)
    BY <1>1, <1>5, <1>6, <1>9, MessageThen
  <2> QED
    BY <1>1, <1>5, <1>6, <1>7, <1>8, <2>1, TextKeeps DEF messageVars
<1>10. CASE Then(t, <<a, b>>)
  <2>1. Does(t, "verbose?", <<a, b>>)
    BY <1>1, <1>4, <1>6, <1>10, MessageThen
  <2> QED
    BY <1>1, <1>4, <1>6, <1>7, <1>8, <2>1, TextKeeps DEF messageVars
<1> QED
  BY <1>1, <1>9, <1>10

LEMMA KeepIfShown == ASSUME NEW t, MessageContext(t), IfShown(t) PROVE MessageKeeps(t)
<1> DEFINE k == Arg(t, 1)
           f == <<"fputs">>
<1>1. /\ Now(t, "limit?") /\ t \in Thread /\ StackInv
      /\ UNCHANGED <<preloading, outDefault, outLen, outBuf>> /\ UNCHANGED optionVars
      /\ Then(t, <<>>) \/ Then(t, <<f>>)
      /\ \/ said' = [said EXCEPT ![k] = @ + 1]
         \/ said' = [said EXCEPT ![k] = @]
  BY DEF IfShown, MessageContext
<1>2. k \in Kind
  BY <1>1, NowTyped DEF Typed, Arg
<1>3. f \in Frame /\ f[1] = "fputs"
  BY FrameLife
<1> HIDE DEF k, f
<1>5. May(t, <<f>>) /\ Elements(<<f>>) = {f}
  BY <1>3, MayOne DEF MainNames
<1>6. "limit?" \in TextNames /\ f[1] \in MessageNames
  BY <1>3 DEF TextNames, MessageNames
<1>7. MessagesTypeOK'
  <2>1. said \in [Kind -> Nat]
    BY DEF MessagesTypeOK, MessageContext
  <2>2. said' \in [Kind -> Nat]
    <3>1. CASE said' = [said EXCEPT ![k] = @ + 1]
      BY <1>2, <2>1, <3>1
    <3>2. CASE said' = [said EXCEPT ![k] = @]
      BY <1>2, <2>1, <3>2
    <3> QED
      BY <1>1, <3>1, <3>2
  <2> QED
    BY <1>1, <2>2 DEF optionVars, MessagesTypeOK, MessageContext
<1>8. f[1] \in TextNames \ {"getenv", "parse", "initialized", "quiet", "copy", "terminate", "deliver"}
  BY <1>3 DEF TextNames, MessageNames
<1>9. CASE Then(t, <<f>>)
  <2>1. Does(t, "limit?", <<f>>)
    BY <1>1, <1>5, <1>6, <1>9, MessageThen
  <2> QED
    BY <1>1, <1>5, <1>6, <1>7, <1>8, <2>1, TextKeeps DEF optionVars
<1>10. CASE Then(t, <<>>)
  <2>1. Does(t, "limit?", <<>>)
    BY <1>1, <1>6, <1>10, MayNone, MessageThen
  <2> QED
    BY <1>1, <1>6, <1>7, <2>1, MayNone, TextKeeps DEF optionVars
<1> QED
  BY <1>1, <1>9, <1>10

LEMMA KeepFputs == ASSUME NEW t, MessageContext(t), Fputs(t) PROVE MessageKeeps(t)
<1> DEFINE a == <<"out", outDefault, PrefixLen>>
           b == <<"out", outDefault, TextLen>>
<1>1. Now(t, "fputs") /\ Then(t, <<a, b>>) /\ UNCHANGED messageVars /\ t \in Thread /\ StackInv
  BY DEF Fputs, MessageContext
<1>3. a \in Frame /\ b \in Frame /\ a[1] = "out" /\ b[1] = "out"
  BY FrameText, MessagesAssumption DEF MessageContext, MessagesTypeOK
<1> HIDE DEF a, b
<1>4. May(t, <<a, b>>) /\ Elements(<<a, b>>) = {a, b}
  <2>1. Over(b, a) /\ {a[1], b[1]} \cap MainNames = {}
    BY <1>3 DEF Over, HeadNames, MainNames
  <2> QED
    BY <1>3, <2>1, MayTwo
<1>5. "fputs" \in TextNames /\ \A s \in {a, b} : s[1] \in MessageNames
  BY <1>3 DEF TextNames, MessageNames
<1>6. Does(t, "fputs", <<a, b>>)
  BY <1>1, <1>4, <1>5, MessageThen
<1>7. MessagesTypeOK'
  BY <1>1 DEF messageVars, MessagesTypeOK, MessageContext
<1>8. \A s \in {a, b} : s[1] \in TextNames \ {"getenv", "parse", "initialized", "quiet",
                                              "copy", "terminate", "deliver"}
  BY <1>3 DEF TextNames, MessageNames
<1> QED
  BY <1>1, <1>4, <1>5, <1>6, <1>7, <1>8, TextKeeps DEF messageVars

LEMMA KeepOut == ASSUME NEW t, MessageContext(t), Out(t) PROVE MessageKeeps(t)
<1> DEFINE a == <<"claim", Arg(t, 2)>>
<1>1. /\ Now(t, "out") /\ UNCHANGED messageVars /\ t \in Thread /\ StackInv
      /\ Then(t, <<>>) \/ Then(t, <<a>>)
  BY DEF Out, MessageContext
<1>2. Arg(t, 2) \in Nat \ {0}
  BY <1>1, NowTyped DEF Typed, Arg
<1>3. a \in Frame /\ a[1] = "claim"
  BY <1>2, FrameText
<1> HIDE DEF a
<1>5. May(t, <<a>>) /\ Elements(<<a>>) = {a}
  BY <1>3, MayOne DEF MainNames
<1>6. "out" \in TextNames /\ a[1] \in MessageNames
  BY <1>3 DEF TextNames, MessageNames
<1>7. MessagesTypeOK'
  BY <1>1 DEF messageVars, MessagesTypeOK, MessageContext
<1>8. a[1] \in TextNames \ {"getenv", "parse", "initialized", "quiet", "copy", "terminate", "deliver"}
  BY <1>3 DEF TextNames, MessageNames
<1>9. CASE Then(t, <<a>>)
  <2>1. Does(t, "out", <<a>>)
    BY <1>1, <1>5, <1>6, <1>9, MessageThen
  <2> QED
    BY <1>1, <1>5, <1>6, <1>7, <1>8, <2>1, TextKeeps DEF messageVars
<1>10. CASE Then(t, <<>>)
  <2>1. Does(t, "out", <<>>)
    BY <1>1, <1>6, <1>10, MayNone, MessageThen
  <2> QED
    BY <1>1, <1>6, <1>7, <2>1, MayNone, TextKeeps DEF messageVars
<1> QED
  BY <1>1, <1>9, <1>10

LEMMA KeepSetLimits == ASSUME NEW t, MessageContext(t), SetLimits(t) PROVE MessageKeeps(t)
<1>1. /\ Now(t, "limits") /\ Then(t, <<>>) /\ t \in Thread /\ StackInv
      /\ limit' = [error |-> value["max_errors"], warning |-> value["max_warnings"]]
      /\ UNCHANGED <<env, preloading, value, init, given>> /\ UNCHANGED outVars
  BY DEF SetLimits, MessageContext
<1>2. "limits" \in TextNames
  BY DEF TextNames
<1>3. MessagesTypeOK'
  <2>1. value["max_errors"] \in Int /\ value["max_warnings"] \in Int
    BY MessagesAssumption DEF MessageContext, MessagesTypeOK
  <2>2. limit' \in [Kind -> Int]
    BY <1>1, <2>1 DEF Kind
  <2> QED
    BY <1>1, <2>2 DEF MessageContext, MessagesTypeOK, outVars
<1>4. Does(t, "limits", <<>>)
  BY <1>1, <1>2, MayNone, MessageThen
<1> QED
  BY <1>1, <1>2, <1>3, <1>4, MayNone, TextKeeps DEF outVars

LEMMA KeepAddStderr == ASSUME NEW t, MessageContext(t), AddStderr(t) PROVE MessageKeeps(t)
<1>1. /\ Now(t, "add_stderr") /\ Then(t, <<>>) /\ t \in Thread /\ StackInv
      /\ outDefault' = "bufStderr"
      /\ UNCHANGED <<preloading, said, outLen, outBuf>> /\ UNCHANGED optionVars
  BY DEF AddStderr, MessageContext
<1>2. "add_stderr" \in TextNames
  BY DEF TextNames
<1>3. MessagesTypeOK'
  BY <1>1 DEF MessageContext, MessagesTypeOK, optionVars
<1>4. Does(t, "add_stderr", <<>>)
  BY <1>1, <1>2, MayNone, MessageThen
<1> QED
  BY <1>1, <1>2, <1>3, <1>4, MayNone, TextKeeps DEF optionVars

(***************************************************************************)
(* The output.                                                             *)
(***************************************************************************)
\* The first step of t when it has just called the only step a.
LEMMA DoesOne ==
    ASSUME NEW t \in Thread, NEW n, NEW a, Does(t, n, <<a>>)
    PROVE  /\ \A m : Now(t, m)' <=> a[1] = m
           /\ \A i : Arg(t, i)' = a[i + 1]
<1>1. todo'[t] # <<>> /\ Head(todo'[t]) = a
  <2>1. <<a>> # <<>> /\ <<a>>[1] = a
    OBVIOUS
  <2> QED
    BY <2>1 DEF Does, Stepped
<1> QED
  BY <1>1 DEF Now, Arg

\* What is said of the other threads.
LEMMA DoesOthers ==
    ASSUME NEW t \in Thread, NEW n, NEW c, Does(t, n, c)
    PROVE  \A u \in Thread \ {t} : /\ \A m : Now(u, m)' <=> Now(u, m)
                                   /\ \A i : Arg(u, i)' = Arg(u, i)
                                   /\ u \in Copying' <=> u \in Copying
                                   /\ Target(u)' = Target(u)
                                   /\ Closing(u)' <=> Closing(u)
<1>1. \A u \in Thread \ {t} : todo'[u] = todo[u]
  BY DEF Does, Stepped
<1>2. \A u \in Thread \ {t} : /\ \A m : Now(u, m)' <=> Now(u, m)
                              /\ \A i : Arg(u, i)' = Arg(u, i)
  BY <1>1 DEF Now, Arg
<1> QED
  BY <1>2 DEF Copying, Target, Closing

\* After a step that calls nothing, or a step outside the output, t has no part in it.
LEMMA DoesQuiet ==
    ASSUME NEW t \in Thread, NEW n, NEW c, Does(t, n, c), Avoids(c, {"copy", "terminate", "deliver"})
    PROVE  ~Now(t, "copy")' /\ ~Now(t, "terminate")' /\ ~Now(t, "deliver")'
<1>1. {"copy", "terminate", "deliver"} \subseteq HeadNames
  BY DEF HeadNames
<1> QED
  BY <1>1, SteppedNow DEF Avoids, Does

\* The part of MessageKeeps that is about options, for steps of the output.
LEMMA OutputKeeps ==
    ASSUME NEW t, MessageContext(t), NEW c,
           NEW n \in {"claim", "copy", "flush", "terminate", "deliver"}, Does(t, n, c),
           MessagesTypeOK', OutputInv', UNCHANGED <<env, preloading, value, init, given>>,
           \A s \in Elements(c) : s[1] \in {"copy", "terminate", "deliver"}
    PROVE  MessageKeeps(t)
<1>1. /\ OptionsInv /\ t \in Thread /\ Stepped(t, c) /\ Main \in Thread
      /\ UNCHANGED <<loaded, program, life>> /\ ChoiceInv
  BY ProcessAssumption DEF MessageContext, Does
<1>2. Avoids(c, OptionNames) /\ \A s \in Elements(c) : s[1] \in TextNames
  BY DEF Avoids, OptionNames, TextNames, MessageNames
<1>3. NotAt(t, ReadNames) /\ n \in TextNames
  BY DEF NotAt, ReadNames, Does, TextNames, MessageNames
<1>4. OptionsInv'
  BY <1>1, <1>2, <1>3, OptionsKept
<1> QED
  BY <1>1, <1>2, <1>3, <1>4 DEF MessageKeeps, ChoiceInv

LEMMA KeepClaim == ASSUME NEW t, MessageContext(t), ClaimOutput(t) PROVE MessageKeeps(t)
<1> DEFINE k == Arg(t, 1)
           n == Fitting(outLen, k)
           a == <<"copy", outLen, n>>
<1>1. /\ Now(t, "claim") /\ t \in Thread /\ StackInv /\ OutputInv /\ outLen' = outLen + k
      /\ \/ outLen >= MaxDelay /\ Then(t, <<>>)
         \/ ~(outLen >= MaxDelay) /\ Then(t, <<a>>)
      /\ UNCHANGED <<preloading, said, outDefault, outBuf>> /\ UNCHANGED optionVars
  BY DEF ClaimOutput, MessageContext
<1>2. k \in Nat \ {0} /\ outLen \in Nat /\ MaxDelay \in Nat \ {0}
  BY <1>1, NowTyped, MessagesAssumption DEF Typed, Arg, MessageContext, MessagesTypeOK
<1>3. MessagesTypeOK'
  BY <1>1, <1>2 DEF MessageContext, MessagesTypeOK, optionVars
<1>4. "claim" \in TextNames
  BY DEF TextNames, MessageNames
<1>5. ~(outLen >= MaxDelay) => n \in Nat /\ n <= k /\ outLen + n < MaxDelay
  BY <1>2 DEF Fitting
<1>6. CASE outLen >= MaxDelay /\ Then(t, <<>>)
  <2>1. Does(t, "claim", <<>>) /\ Elements(<<>>) = {}
    BY <1>1, <1>4, <1>6, MayNone, MessageThen
  <2>2. ~Now(t, "copy")' /\ ~Now(t, "terminate")' /\ ~Now(t, "deliver")'
    BY <1>1, <2>1, DoesQuiet DEF Avoids
  <2>3. /\ \A u \in Copying' : u \in Copying /\ Target(u)' = Target(u)
                               /\ Arg(u, 1)' = Arg(u, 1) /\ Arg(u, 2)' = Arg(u, 2)
        /\ \A u \in Thread : Closing(u)' => Closing(u) /\ Arg(u, 1)' = Arg(u, 1)
        /\ \A u \in Thread : Now(u, "deliver")' => Now(u, "deliver") /\ Arg(u, 1)' = Arg(u, 1)
    BY <1>1, <2>1, <2>2, DoesOthers DEF Copying, Closing
  <2>4. OutputInv'
    <3>1. \A i \in 0..(MaxDelay - 1) : i >= outLen' => outBuf'[i] = "zero"
      BY <1>1, <1>2 DEF OutputInv
    <3>2. \A u \in Copying' : Arg(u, 1)' + Arg(u, 2)' <= outLen'
      <4> TAKE u \in Copying'
      <4>1. u \in Copying /\ Arg(u, 1)' = Arg(u, 1) /\ Arg(u, 2)' = Arg(u, 2)
        BY <2>3
      <4>2. Arg(u, 1) + Arg(u, 2) <= outLen
        BY <1>1, <4>1 DEF OutputInv
      <4>3. Arg(u, 1) \in Nat /\ Arg(u, 2) \in Nat
        BY <1>1, <4>1, NowTyped DEF Typed, Arg, Copying
      <4> QED
        BY <1>1, <1>2, <4>1, <4>2, <4>3
    <3>3. \A u \in Copying' :
             /\ Arg(u, 1)' + Arg(u, 2)' < MaxDelay
             /\ \A i \in Target(u)' : outBuf'[i] = "zero"
             /\ \A v \in Copying' \ {u} : Target(u)' \cap Target(v)' = {}
      BY <1>1, <2>3 DEF OutputInv
    <3>4. \A u \in Thread : Closing(u)' => /\ Arg(u, 1)' < outLen' \/ Arg(u, 1)' = MaxDelay
                                          /\ \A v \in Copying' : Arg(u, 1)' \notin Target(v)'
      <4> SUFFICES ASSUME NEW u \in Thread, Closing(u)'
                   PROVE  /\ Arg(u, 1)' < outLen' \/ Arg(u, 1)' = MaxDelay
                          /\ \A v \in Copying' : Arg(u, 1)' \notin Target(v)'
        OBVIOUS
      <4>1. Closing(u) /\ Arg(u, 1)' = Arg(u, 1)
        BY <2>3
      <4>2. /\ Arg(u, 1) < outLen \/ Arg(u, 1) = MaxDelay
            /\ \A v \in Copying : Arg(u, 1) \notin Target(v)
        BY <1>1, <4>1 DEF OutputInv
      <4>3. Arg(u, 1) \in 0..MaxDelay
        BY <1>1, <4>1, NowTyped DEF Typed, Arg, Closing
      <4>4. Arg(u, 1)' < outLen' \/ Arg(u, 1)' = MaxDelay
        BY <1>1, <1>2, <4>1, <4>2, <4>3
      <4> QED
        BY <2>3, <4>1, <4>2, <4>4
    <3>5. \A u \in Thread : Now(u, "deliver")' => outBuf'[Arg(u, 1)'] = "zero"
      BY <1>1, <2>3 DEF OutputInv
    <3> QED
      BY <3>1, <3>2, <3>3, <3>4, <3>5 DEF OutputInv
  <2> QED
    BY <1>1, <1>3, <2>1, <2>4, OutputKeeps DEF optionVars
<1>7. CASE ~(outLen >= MaxDelay) /\ Then(t, <<a>>)
  <2>1. a \in Frame /\ a[1] = "copy" /\ a[2] = outLen /\ a[3] = n
    BY <1>2, <1>5, <1>7, FrameText
  <2>0. n \in Nat /\ n <= k /\ outLen + n < MaxDelay
    BY <1>5, <1>7
  <2> HIDE DEF k, a, n
  <2>2. May(t, <<a>>) /\ Elements(<<a>>) = {a}
    BY <2>1, MayOne DEF MainNames
  <2>3. Does(t, "claim", <<a>>)
    BY <1>1, <1>4, <1>7, <2>1, <2>2, MessageThen DEF MessageNames
  <2>4. /\ Now(t, "copy")' /\ ~Now(t, "terminate")' /\ ~Now(t, "deliver")'
        /\ Arg(t, 1)' = outLen /\ Arg(t, 2)' = n
    BY <1>1, <2>1, <2>3, DoesOne
  <2>5. /\ \A u \in Copying' : u # t => /\ u \in Copying /\ Target(u)' = Target(u)
                                        /\ Arg(u, 1)' = Arg(u, 1) /\ Arg(u, 2)' = Arg(u, 2)
        /\ \A u \in Thread : Closing(u)' => u # t /\ Closing(u) /\ Arg(u, 1)' = Arg(u, 1)
        /\ \A u \in Thread : Now(u, "deliver")' => Now(u, "deliver") /\ Arg(u, 1)' = Arg(u, 1)
    BY <1>1, <2>3, <2>4, DoesOthers DEF Copying, Closing
  <2>6. Target(t)' = outLen..(outLen + n - 1)
    BY <2>4 DEF Target
  <2>7. \A u \in Copying : Target(u) \subseteq 0..(outLen - 1)
    <3> TAKE u \in Copying
    <3>1. u \in Thread /\ Now(u, "copy")
      BY DEF Copying
    <3>2. Arg(u, 1) \in Nat /\ Arg(u, 2) \in Nat
      BY <1>1, <3>1, NowTyped DEF Typed, Arg
    <3>3. Arg(u, 1) + Arg(u, 2) <= outLen
      BY <1>1 DEF OutputInv
    <3> QED
      BY <1>2, <3>2, <3>3 DEF Target
  <2>8. \A i \in 0..(MaxDelay - 1) : i >= outLen' => outBuf'[i] = "zero"
    BY <1>1, <1>2 DEF OutputInv
  <2>9. ASSUME NEW u \in Copying'
        PROVE  /\ Arg(u, 1)' + Arg(u, 2)' <= outLen' /\ Arg(u, 1)' + Arg(u, 2)' < MaxDelay
               /\ \A i \in Target(u)' : outBuf'[i] = "zero"
               /\ \A v \in Copying' \ {u} : Target(u)' \cap Target(v)' = {}
    <3>1. \A v \in Copying' : v # t => v \in Copying /\ Target(v)' \cap Target(t)' = {}
      BY <1>2, <2>0, <2>5, <2>6, <2>7
    <3>2. CASE u = t
      <4>1. outLen + n <= outLen' /\ outLen + n < MaxDelay
        BY <1>1, <1>2, <2>0
      <4>2. \A i \in outLen..(outLen + n - 1) : i \in 0..(MaxDelay - 1) /\ i >= outLen
        BY <1>2, <2>0
      <4>3. \A i \in Target(t)' : outBuf'[i] = "zero"
        BY <1>1, <2>6, <4>2 DEF OutputInv
      <4> QED
        BY <2>4, <3>1, <3>2, <4>1, <4>3
    <3>3. CASE u # t
      <4>1. u \in Copying /\ Target(u)' = Target(u) /\ Arg(u, 1)' = Arg(u, 1) /\ Arg(u, 2)' = Arg(u, 2)
        BY <2>5, <3>3
      <4>2. /\ Arg(u, 1) + Arg(u, 2) <= outLen /\ Arg(u, 1) + Arg(u, 2) < MaxDelay
            /\ \A i \in Target(u) : outBuf[i] = "zero"
            /\ \A v \in Copying \ {u} : Target(u) \cap Target(v) = {}
        BY <1>1, <4>1 DEF OutputInv
      <4>3. Arg(u, 1) \in Nat /\ Arg(u, 2) \in Nat
        BY <1>1, <4>1, NowTyped DEF Typed, Arg, Copying
      <4>4. Arg(u, 1)' + Arg(u, 2)' <= outLen'
        BY <1>1, <1>2, <4>1, <4>2, <4>3
      <4>5. \A v \in Copying' \ {u} : Target(u)' \cap Target(v)' = {}
        BY <2>5, <3>1, <3>3, <4>1, <4>2
      <4> QED
        BY <1>1, <4>1, <4>2, <4>4, <4>5
    <3> QED
      BY <3>2, <3>3
  <2>10. ASSUME NEW u \in Thread, Closing(u)'
         PROVE  /\ Arg(u, 1)' < outLen' \/ Arg(u, 1)' = MaxDelay
                /\ \A v \in Copying' : Arg(u, 1)' \notin Target(v)'
    <3>1. u # t /\ Closing(u) /\ Arg(u, 1)' = Arg(u, 1)
      BY <2>5, <2>10
    <3>2. /\ Arg(u, 1) < outLen \/ Arg(u, 1) = MaxDelay
          /\ \A v \in Copying : Arg(u, 1) \notin Target(v)
      BY <1>1, <3>1 DEF OutputInv
    <3>3. Arg(u, 1) \in 0..MaxDelay
      BY <1>1, <3>1, NowTyped DEF Typed, Arg, Closing
    <3>4. Arg(u, 1) \notin Target(t)'
      BY <1>2, <2>0, <2>6, <3>2, <3>3
    <3> QED
      BY <1>1, <1>2, <2>5, <3>1, <3>2, <3>3, <3>4
  <2>11. \A u \in Thread : Now(u, "deliver")' => outBuf'[Arg(u, 1)'] = "zero"
    BY <1>1, <2>5 DEF OutputInv
  <2>12. OutputInv'
    BY <2>8, <2>9, <2>10, <2>11 DEF OutputInv
  <2> QED
    BY <1>1, <1>3, <2>1, <2>2, <2>3, <2>12, OutputKeeps DEF optionVars
<1> QED
  BY <1>1, <1>6, <1>7

LEMMA KeepCopy == ASSUME NEW t, MessageContext(t), CopyOutput(t) PROVE MessageKeeps(t)
<1>1. /\ Now(t, "copy") /\ t \in Thread /\ StackInv /\ OutputInv /\ Then(t, <<>>)
      /\ outBuf' = [i \in 0..MaxDelay |-> IF i \in Target(t) THEN "text" ELSE outBuf[i]]
      /\ UNCHANGED <<preloading, said, outDefault, outLen>> /\ UNCHANGED optionVars
  BY DEF CopyOutput, MessageContext, Target
<1>2. /\ Arg(t, 1) \in Nat /\ Arg(t, 2) \in Nat /\ t \in Copying
      /\ outLen \in Nat /\ MaxDelay \in Nat \ {0}
  BY <1>1, NowTyped, MessagesAssumption DEF Typed, Arg, Copying, MessageContext, MessagesTypeOK
<1>3. MessagesTypeOK'
  BY <1>1 DEF MessageContext, MessagesTypeOK, optionVars
<1>4. "copy" \in TextNames
  BY DEF TextNames, MessageNames
<1>5. Does(t, "copy", <<>>) /\ Elements(<<>>) = {}
  BY <1>1, <1>4, MayNone, MessageThen
<1>6. ~Now(t, "copy")' /\ ~Now(t, "terminate")' /\ ~Now(t, "deliver")'
  BY <1>1, <1>5, DoesQuiet DEF Avoids
<1>7. /\ \A u \in Copying' : /\ u \in Copying /\ u # t /\ Target(u)' = Target(u)
                             /\ Arg(u, 1)' = Arg(u, 1) /\ Arg(u, 2)' = Arg(u, 2)
      /\ \A u \in Thread : Closing(u)' => Closing(u) /\ Arg(u, 1)' = Arg(u, 1)
      /\ \A u \in Thread : Now(u, "deliver")' => Now(u, "deliver") /\ Arg(u, 1)' = Arg(u, 1)
  BY <1>1, <1>5, <1>6, DoesOthers DEF Copying, Closing
<1>8. Target(t) \subseteq 0..(outLen - 1)
  <2>1. Arg(t, 1) + Arg(t, 2) <= outLen
    BY <1>1, <1>2 DEF OutputInv
  <2> QED
    BY <1>2, <2>1 DEF Target
<1>9. \A i \in 0..(MaxDelay - 1) : i >= outLen' => outBuf'[i] = "zero"
  BY <1>1, <1>2, <1>8 DEF OutputInv
<1>10. \A u \in Copying' : /\ Arg(u, 1)' + Arg(u, 2)' <= outLen' /\ Arg(u, 1)' + Arg(u, 2)' < MaxDelay
                           /\ \A v \in Copying' \ {u} : Target(u)' \cap Target(v)' = {}
  BY <1>1, <1>7 DEF OutputInv
<1>11. ASSUME NEW u \in Copying', NEW i \in Target(u)'
       PROVE  outBuf'[i] = "zero"
  <2>1. u \in Copying /\ u # t /\ i \in Target(u)
    BY <1>7
  <2>2. outBuf[i] = "zero" /\ i \notin Target(t) /\ Arg(u, 1) + Arg(u, 2) < MaxDelay
    BY <1>1, <1>2, <2>1 DEF OutputInv
  <2>3. Arg(u, 1) \in Nat /\ Arg(u, 2) \in Nat
    BY <1>1, <2>1, NowTyped DEF Typed, Arg, Copying
  <2>4. i \in 0..MaxDelay
    BY <1>2, <2>1, <2>2, <2>3 DEF Target
  <2> QED
    BY <1>1, <2>2, <2>4
<1>12. \A u \in Thread : Closing(u)' => /\ Arg(u, 1)' < outLen' \/ Arg(u, 1)' = MaxDelay
                                        /\ \A v \in Copying' : Arg(u, 1)' \notin Target(v)'
  BY <1>1, <1>7 DEF OutputInv
<1>13. ASSUME NEW u \in Thread, Now(u, "deliver")'
       PROVE  outBuf'[Arg(u, 1)'] = "zero"
  <2>1. Now(u, "deliver") /\ Closing(u) /\ Arg(u, 1)' = Arg(u, 1)
    BY <1>7, <1>13 DEF Closing
  <2>2. outBuf[Arg(u, 1)] = "zero" /\ Arg(u, 1) \notin Target(t)
    BY <1>1, <1>2, <2>1 DEF OutputInv
  <2>3. Arg(u, 1) \in 0..MaxDelay
    BY <1>1, <2>1, NowTyped DEF Typed, Arg
  <2> QED
    BY <1>1, <2>1, <2>2, <2>3
<1>14. OutputInv'
  BY <1>9, <1>10, <1>11, <1>12, <1>13 DEF OutputInv
<1> QED
  BY <1>1, <1>3, <1>5, <1>14, OutputKeeps DEF optionVars

LEMMA KeepFlush == ASSUME NEW t, MessageContext(t), FlushOutput(t) PROVE MessageKeeps(t)
<1> DEFINE more == IF Arg(t, 1) THEN MaxDelay ELSE 1
           p == IF outLen > MaxDelay THEN MaxDelay ELSE outLen
           a == <<"terminate", p, Arg(t, 1)>>
<1>1. /\ Now(t, "flush") /\ t \in Thread /\ StackInv /\ OutputInv /\ Then(t, <<a>>)
      /\ outLen' = outLen + more
      /\ UNCHANGED <<preloading, said, outDefault, outBuf>> /\ UNCHANGED optionVars
  BY DEF FlushOutput, MessageContext
<1>2. outLen \in Nat /\ MaxDelay \in Nat \ {0} /\ more \in Nat \ {0}
  BY MessagesAssumption DEF MessageContext, MessagesTypeOK
<1>3. MessagesTypeOK'
  BY <1>1, <1>2 DEF MessageContext, MessagesTypeOK, optionVars
<1>4. "flush" \in TextNames /\ "terminate" \in TextNames /\ "flush" \notin MessageNames
  BY DEF TextNames, MessageNames
<1>5. p \in 0..MaxDelay /\ (p < outLen' \/ p = MaxDelay) /\ p <= outLen
  BY <1>1, <1>2
<1>6. a \in Frame /\ a[1] = "terminate" /\ a[2] = p /\ t = Main
  <2>1. Arg(t, 1) \in BOOLEAN
    BY <1>1, NowTyped DEF Typed, Arg
  <2>2. t = Main
    <3>1. Head(todo[t]) \in Ahead(t) /\ Head(todo[t])[1] = "flush"
      BY <1>1, NowTyped
    <3> QED
      BY <1>1, <3>1 DEF StackInv, MainNames
  <2> QED
    BY <1>5, <2>1, <2>2, FrameText
<1>0. p = MaxDelay \/ p = outLen
  OBVIOUS
<1> HIDE DEF a, p, more
<1>7. May(t, <<a>>) /\ Elements(<<a>>) = {a}
  BY <1>6, MayOne
<1>8. Does(t, "flush", <<a>>)
  BY <1>1, <1>4, <1>6, <1>7, MessageThen
<1>9. /\ ~Now(t, "copy")' /\ Now(t, "terminate")' /\ ~Now(t, "deliver")' /\ Arg(t, 1)' = p
  BY <1>1, <1>6, <1>8, DoesOne
<1>10. /\ \A u \in Copying' : /\ u \in Copying /\ u # t /\ Target(u)' = Target(u)
                              /\ Arg(u, 1)' = Arg(u, 1) /\ Arg(u, 2)' = Arg(u, 2)
       /\ \A u \in Thread : Closing(u)' /\ u # t => Closing(u) /\ Arg(u, 1)' = Arg(u, 1)
       /\ \A u \in Thread : Now(u, "deliver")' => Now(u, "deliver") /\ Arg(u, 1)' = Arg(u, 1)
  BY <1>1, <1>8, <1>9, DoesOthers DEF Copying, Closing
<1>11. \A i \in 0..(MaxDelay - 1) : i >= outLen' => outBuf'[i] = "zero"
  BY <1>1, <1>2 DEF OutputInv
<1>12. ASSUME NEW u \in Copying'
       PROVE  /\ Arg(u, 1)' + Arg(u, 2)' <= outLen' /\ Arg(u, 1)' + Arg(u, 2)' < MaxDelay
              /\ \A i \in Target(u)' : outBuf'[i] = "zero"
              /\ \A v \in Copying' \ {u} : Target(u)' \cap Target(v)' = {}
              /\ p \notin Target(u)'
  <2>1. /\ u \in Copying /\ u # t /\ Target(u)' = Target(u)
        /\ Arg(u, 1)' = Arg(u, 1) /\ Arg(u, 2)' = Arg(u, 2)
    BY <1>10
  <2>2. /\ Arg(u, 1) + Arg(u, 2) <= outLen /\ Arg(u, 1) + Arg(u, 2) < MaxDelay
        /\ \A i \in Target(u) : outBuf[i] = "zero"
        /\ \A v \in Copying \ {u} : Target(u) \cap Target(v) = {}
    BY <1>1, <2>1 DEF OutputInv
  <2>3. Arg(u, 1) \in Nat /\ Arg(u, 2) \in Nat
    BY <1>1, <2>1, NowTyped DEF Typed, Arg, Copying
  <2>4. p \notin Target(u)
    BY <1>0, <1>2, <2>2, <2>3 DEF Target
  <2>5. Arg(u, 1) + Arg(u, 2) <= outLen'
    BY <1>1, <1>2, <2>2, <2>3
  <2>6. \A v \in Copying' \ {u} : Target(u)' \cap Target(v)' = {}
    BY <1>10, <2>1, <2>2
  <2> QED
    BY <1>1, <2>1, <2>2, <2>4, <2>5, <2>6
<1>13. ASSUME NEW u \in Thread, Closing(u)'
       PROVE  /\ Arg(u, 1)' < outLen' \/ Arg(u, 1)' = MaxDelay
              /\ \A v \in Copying' : Arg(u, 1)' \notin Target(v)'
  <2>1. CASE u = t
    BY <1>5, <1>9, <1>12, <2>1
  <2>2. CASE u # t
    <3>1. Closing(u) /\ Arg(u, 1)' = Arg(u, 1)
      BY <1>10, <1>13, <2>2
    <3>2. /\ Arg(u, 1) < outLen \/ Arg(u, 1) = MaxDelay
          /\ \A v \in Copying : Arg(u, 1) \notin Target(v)
      BY <1>1, <3>1 DEF OutputInv
    <3>3. Arg(u, 1) \in 0..MaxDelay
      BY <1>1, <3>1, NowTyped DEF Typed, Arg, Closing
    <3>4. Arg(u, 1) < outLen' \/ Arg(u, 1) = MaxDelay
      BY <1>1, <1>2, <3>2, <3>3
    <3> QED
      BY <1>10, <3>1, <3>2, <3>4
  <2> QED
    BY <2>1, <2>2
<1>14. \A u \in Thread : Now(u, "deliver")' => outBuf'[Arg(u, 1)'] = "zero"
  BY <1>1, <1>10 DEF OutputInv
<1>15. OutputInv'
  BY <1>11, <1>12, <1>13, <1>14 DEF OutputInv
<1> QED
  BY <1>1, <1>3, <1>6, <1>7, <1>8, <1>15, OutputKeeps DEF optionVars

LEMMA KeepTerminate == ASSUME NEW t, MessageContext(t), Terminate(t) PROVE MessageKeeps(t)
<1> DEFINE p == Arg(t, 1)
           a == <<"deliver", p, Arg(t, 2)>>
<1>1. /\ Now(t, "terminate") /\ t \in Thread /\ StackInv /\ OutputInv /\ Then(t, <<a>>)
      /\ outBuf' = [outBuf EXCEPT ![p] = "zero"]
      /\ UNCHANGED <<preloading, said, outDefault, outLen>> /\ UNCHANGED optionVars
  BY DEF Terminate, MessageContext
<1>2. p \in 0..MaxDelay /\ outBuf \in [0..MaxDelay -> {"zero", "text", "newline"}]
  BY <1>1, NowTyped DEF Typed, Arg, MessageContext, MessagesTypeOK
<1>3. MessagesTypeOK'
  BY <1>1, <1>2 DEF MessageContext, MessagesTypeOK, optionVars
<1>4. "terminate" \in TextNames /\ "deliver" \in TextNames /\ "terminate" \notin MessageNames
  BY DEF TextNames, MessageNames
<1>5. a \in Frame /\ a[1] = "deliver" /\ a[2] = p /\ t = Main
  <2>1. Arg(t, 2) \in BOOLEAN
    BY <1>1, NowTyped DEF Typed, Arg
  <2>2. t = Main
    <3>1. Head(todo[t]) \in Ahead(t) /\ Head(todo[t])[1] = "terminate"
      BY <1>1, NowTyped
    <3> QED
      BY <1>1, <3>1 DEF StackInv, MainNames
  <2> QED
    BY <1>2, <2>1, <2>2, FrameText
<1>6. Closing(t) /\ Arg(t, 1) = p
  BY <1>1 DEF Closing
<1> HIDE DEF a, p
<1>7. May(t, <<a>>) /\ Elements(<<a>>) = {a}
  BY <1>5, MayOne
<1>8. Does(t, "terminate", <<a>>)
  BY <1>1, <1>4, <1>5, <1>7, MessageThen
<1>9. ~Now(t, "copy")' /\ ~Now(t, "terminate")' /\ Now(t, "deliver")' /\ Arg(t, 1)' = p
  BY <1>1, <1>5, <1>8, DoesOne
<1>10. \A i \in 0..MaxDelay : outBuf'[i] = "zero" \/ outBuf'[i] = outBuf[i]
  BY <1>1, <1>2
<1>11. /\ \A u \in Copying' : /\ u \in Copying /\ u # t /\ Target(u)' = Target(u)
                              /\ Arg(u, 1)' = Arg(u, 1) /\ Arg(u, 2)' = Arg(u, 2)
       /\ \A u \in Thread : Closing(u)' => Closing(u) /\ Arg(u, 1)' = Arg(u, 1)
       /\ \A u \in Thread : Now(u, "deliver")' /\ u # t => Now(u, "deliver") /\ Arg(u, 1)' = Arg(u, 1)
  BY <1>1, <1>6, <1>8, <1>9, DoesOthers DEF Copying, Closing
<1>12. /\ \A i \in 0..(MaxDelay - 1) : i >= outLen' => outBuf'[i] = "zero"
       /\ \A u \in Copying : \A i \in Target(u) : outBuf'[i] = "zero"
  <2>1. \A i \in 0..(MaxDelay - 1) : i \in 0..MaxDelay
    BY MessagesAssumption
  <2>2. \A u \in Copying : \A i \in Target(u) : i \in 0..MaxDelay
    <3> TAKE u \in Copying
    <3>1. Arg(u, 1) \in Nat /\ Arg(u, 2) \in Nat
      BY <1>1, NowTyped DEF Typed, Arg, Copying
    <3>2. Arg(u, 1) + Arg(u, 2) < MaxDelay
      BY <1>1 DEF OutputInv
    <3> QED
      BY <3>1, <3>2, MessagesAssumption DEF Target
  <2> QED
    BY <1>1, <1>10, <2>1, <2>2 DEF OutputInv
<1>13. \A u \in Thread : Now(u, "deliver")' => outBuf'[Arg(u, 1)'] = "zero"
  <2> SUFFICES ASSUME NEW u \in Thread, Now(u, "deliver")'
               PROVE  outBuf'[Arg(u, 1)'] = "zero"
    OBVIOUS
  <2>1. CASE u = t
    BY <1>1, <1>2, <1>9, <2>1
  <2>2. CASE u # t
    <3>1. Now(u, "deliver") /\ Arg(u, 1)' = Arg(u, 1)
      BY <1>11, <2>2
    <3>2. Arg(u, 1) \in 0..MaxDelay /\ outBuf[Arg(u, 1)] = "zero"
      BY <1>1, <3>1, NowTyped DEF Typed, Arg, OutputInv
    <3> QED
      BY <1>10, <3>1, <3>2
  <2> QED
    BY <2>1, <2>2
<1>14. OutputInv'
  BY <1>1, <1>11, <1>12, <1>13 DEF OutputInv
<1> QED
  BY <1>1, <1>3, <1>5, <1>7, <1>8, <1>14, OutputKeeps DEF optionVars

LEMMA KeepDeliver == ASSUME NEW t, MessageContext(t), Deliver(t) PROVE MessageKeeps(t)
<1> DEFINE p == Arg(t, 1)
<1>1. /\ Now(t, "deliver") /\ t \in Thread /\ StackInv /\ OutputInv /\ Then(t, <<>>)
      /\ outBuf' = outBuf \/ outBuf' = [outBuf EXCEPT ![p] = "newline"]
      /\ UNCHANGED <<preloading, said, outDefault, outLen>> /\ UNCHANGED optionVars
  BY DEF Deliver, MessageContext
<1>2. p \in 0..MaxDelay /\ outBuf \in [0..MaxDelay -> {"zero", "text", "newline"}] /\ outLen \in Nat
  <2>1. p \in 0..MaxDelay
    BY <1>1, NowTyped DEF Typed, Arg
  <2> QED
    BY <2>1 DEF MessageContext, MessagesTypeOK
<1>3. MessagesTypeOK'
  BY <1>1, <1>2 DEF MessageContext, MessagesTypeOK, optionVars
<1>4. "deliver" \in TextNames
  BY DEF TextNames
<1>5. Does(t, "deliver", <<>>) /\ Elements(<<>>) = {}
  BY <1>1, <1>4, MayNone, MessageThen
<1>6. ~Now(t, "copy")' /\ ~Now(t, "terminate")' /\ ~Now(t, "deliver")'
  BY <1>1, <1>5, DoesQuiet DEF Avoids
<1>7. t = Main
  <2>1. Head(todo[t]) \in Ahead(t) /\ Head(todo[t])[1] = "deliver"
    BY <1>1, NowTyped
  <2> QED
    BY <1>1, <2>1 DEF StackInv, MainNames
<1>8. \A u \in Thread : Now(u, "deliver") => u = Main
  <2> TAKE u \in Thread
  <2>1. Now(u, "deliver") => Head(todo[u]) \in Ahead(u) /\ Head(todo[u])[1] = "deliver"
    BY <1>1, NowTyped
  <2> QED
    BY <1>1, <2>1 DEF StackInv, MainNames
<1>9. /\ \A u \in Copying' : /\ u \in Copying /\ u # t /\ Target(u)' = Target(u)
                             /\ Arg(u, 1)' = Arg(u, 1) /\ Arg(u, 2)' = Arg(u, 2)
      /\ \A u \in Thread : Closing(u)' => Closing(u) /\ Arg(u, 1)' = Arg(u, 1)
      /\ \A u \in Thread : ~Now(u, "deliver")'
  BY <1>1, <1>5, <1>6, <1>7, <1>8, DoesOthers DEF Copying, Closing
<1>10. (p < outLen \/ p = MaxDelay) /\ \A u \in Copying : p \notin Target(u)
  BY <1>1 DEF OutputInv, Closing
<1> HIDE DEF p
<1>11. \A i \in 0..MaxDelay : i # p => outBuf'[i] = outBuf[i]
  BY <1>1, <1>2
<1>12. \A i \in 0..(MaxDelay - 1) : i >= outLen' => outBuf'[i] = "zero"
  <2>1. \A i \in 0..(MaxDelay - 1) : i \in 0..MaxDelay /\ (i >= outLen => i # p)
    BY <1>2, <1>10, MessagesAssumption
  <2> QED
    BY <1>1, <1>11, <2>1 DEF OutputInv
<1>13. \A u \in Copying : \A i \in Target(u) : outBuf'[i] = "zero"
  <2> TAKE u \in Copying
  <2>1. Arg(u, 1) \in Nat /\ Arg(u, 2) \in Nat
    BY <1>1, NowTyped DEF Typed, Arg, Copying
  <2>2. Arg(u, 1) + Arg(u, 2) < MaxDelay /\ \A i \in Target(u) : outBuf[i] = "zero"
    BY <1>1 DEF OutputInv
  <2>3. \A i \in Target(u) : i \in 0..MaxDelay /\ i # p
    BY <1>10, <2>1, <2>2, MessagesAssumption DEF Target
  <2> QED
    BY <1>11, <2>2, <2>3
<1>14. OutputInv'
  BY <1>1, <1>9, <1>12, <1>13 DEF OutputInv
<1> QED
  BY <1>1, <1>3, <1>5, <1>14, OutputKeeps DEF optionVars

(***************************************************************************)
(* Reading options.                                                        *)
(***************************************************************************)
\* The part of MessageKeeps that is about the output, for steps of an option.
LEMMA OptionKeeps ==
    ASSUME NEW t, MessageContext(t), NEW c, NEW o \in Option,
           NEW n \in {"get", "getenv", "parse", "initialized", "quiet"}, Does(t, n, c),
           IF n = "quiet" THEN o = "verbose" ELSE Head(todo[t])[2] = o,
           OptionMoved(t, o, c), MessagesTypeOK', UNCHANGED <<outLen, outBuf>>,
           \A s \in Elements(c) : s[1] \in {"getenv", "parse", "initialized", "quiet", "message"}
    PROVE  MessageKeeps(t)
<1>1. /\ OutputInv /\ OptionsInv /\ StackInv /\ t \in Thread /\ Stepped(t, c) /\ Main \in Thread /\ ChoiceInv
      /\ UNCHANGED <<env, given, loaded, program, life>>
  BY ProcessAssumption DEF MessageContext, Does, OptionMoved
<1>2. Avoids(c, {"copy", "terminate", "deliver"}) /\ \A s \in Elements(c) : s[1] \in TextNames
  BY DEF Avoids, TextNames, MessageNames
<1>3. n \in TextNames
  BY DEF TextNames, MessageNames
<1>4. OutputInv'
  BY <1>1, <1>2, OutputKept
<1>5. OptionsInv'
  BY <1>1, OptionsMove
<1> QED
  BY <1>1, <1>2, <1>3, <1>4, <1>5 DEF MessageKeeps, ChoiceInv

\* What t has ahead of it after its step, for a name that its step does not have.
LEMMA DoesAhead ==
    ASSUME NEW t \in Thread, NEW n, NEW c, Does(t, n, c)
    PROVE  /\ \A u \in Thread : \A m : m # n /\ Has(u, m) => Has(u, m)'
           /\ \A u \in Thread : \A N, o : n \notin N /\ HasFor(u, N, o) => HasFor(u, N, o)'
           /\ \A s \in Elements(c) : s \in Ahead(t)'
           /\ Head(todo[t]) \in Ahead(t)
<1>1. /\ \A u \in Thread \ {t} : Ahead(u)' = Ahead(u)
      /\ \A s \in Ahead(t) : s \in Ahead(t)' \/ (~Idle(t) /\ s = Head(todo[t]))
      /\ Head(todo[t])[1] = n
  BY SteppedAhead DEF Does
<1>2. Ahead(t)' = Elements(c) \cup Rest(t) /\ Ahead(t) = {Head(todo[t])} \cup Rest(t)
  BY DEF Does, Stepped
<1> QED
  BY <1>1, <1>2 DEF Has, HasFor

\* What holds of an option depends on these variables only.
LEMMA ValueSame ==
    ASSUME NEW t \in Thread, NEW n, NEW c, Does(t, n, c), n \notin {"initialized", "quiet"},
           NEW o, ValueInv(o), UNCHANGED <<env, given>>, value'[o] = value[o], init'[o] = init[o]
    PROVE  ValueInv(o)'
<1>1. EnvOf(o)' = EnvOf(o)
  BY DEF EnvOf
<1>2. \A u \in Thread : Has(u, "quiet") => Has(u, "quiet")'
  BY DoesAhead
<1>3. \A u \in Thread : HasFor(u, {"initialized"}, o) => HasFor(u, {"initialized"}, o)'
  BY DoesAhead
<1> QED
  BY <1>1, <1>2, <1>3 DEF ValueInv

LEMMA KeepOptionGet == ASSUME NEW t, MessageContext(t), OptionGet(t) PROVE MessageKeeps(t)
<1>0. PICK o : o = Arg(t, 1)
  OBVIOUS
<1> DEFINE a == <<"getenv", o>>
<1>1. /\ Now(t, "get") /\ UNCHANGED messageVars /\ t \in Thread /\ StackInv /\ OptionsInv
      /\ \/ init[o] = "UNINIT" /\ Then(t, <<a>>)
         \/ init[o] # "UNINIT" /\ Then(t, <<>>)
  BY <1>0 DEF OptionGet, MessageContext
<1>2. o \in Option /\ Head(todo[t])[2] = o
  BY <1>0, <1>1, NowTyped DEF Typed, Arg
<1>3. a \in Frame /\ a[1] = "getenv" /\ a[2] = o
  BY <1>2, FrameText
<1> HIDE DEF a
<1>4. ValueInv(o)
  BY <1>1, <1>2 DEF OptionsInv
<1>5. May(t, <<a>>) /\ Elements(<<a>>) = {a}
  BY <1>3, MayOne DEF MainNames
<1>6. "get" \in TextNames /\ a[1] \in MessageNames
  BY <1>3 DEF TextNames, MessageNames
<1>7. MessagesTypeOK'
  BY <1>1 DEF messageVars, MessagesTypeOK, MessageContext
<1>8. UNCHANGED <<env, preloading, given, loaded, program, life, value, init, outLen, outBuf>>
  BY <1>1 DEF messageVars, MessageContext
<1>9. CASE init[o] = "UNINIT" /\ Then(t, <<a>>)
  <2>1. Does(t, "get", <<a>>)
    BY <1>1, <1>5, <1>6, <1>9, MessageThen
  <2>2. ValueInv(o)'
    BY <1>1, <1>4, <1>8, <2>1, ValueSame
  <2>3. OptionStep(a)'
    <3>1. given[o] = Absent
      BY <1>4, <1>9 DEF ValueInv
    <3> QED
      BY <1>3, <1>8, <3>1 DEF OptionStep
  <2>4. HasFor(t, {"get", "getenv", "parse", "initialized"}, o)'
    BY <1>1, <1>3, <1>5, <2>1, DoesAhead DEF HasFor
  <2>5. OptionMoved(t, o, <<a>>)
    BY <1>3, <1>5, <1>8, <2>2, <2>3, <2>4 DEF OptionMoved
  <2> QED
    BY <1>2, <1>3, <1>5, <1>7, <1>8, <2>1, <2>5, OptionKeeps
<1>10. CASE init[o] # "UNINIT" /\ Then(t, <<>>)
  <2>1. Does(t, "get", <<>>) /\ Elements(<<>>) = {}
    BY <1>1, <1>6, <1>10, MayNone, MessageThen
  <2>2. ValueInv(o)'
    BY <1>1, <1>4, <1>8, <2>1, ValueSame
  <2>3. OptionMoved(t, o, <<>>)
    BY <1>8, <1>10, <2>1, <2>2 DEF OptionMoved
  <2> QED
    BY <1>2, <1>7, <1>8, <2>1, <2>3, OptionKeeps
<1> QED
  BY <1>1, <1>9, <1>10

LEMMA KeepOptionInit == ASSUME NEW t, MessageContext(t), OptionInit(t) PROVE MessageKeeps(t)
<1>0. PICK o, name, old : o = Arg(t, 1) /\ name = env.name[o] /\ old = env.old[o]
  OBVIOUS
<1> DEFINE a == <<"parse", o, name>>
           b == <<"parse", o, old>>
           w == <<"message", "warning">>
<1>1. /\ Now(t, "getenv") /\ t \in Thread /\ StackInv /\ OptionsInv /\ ChoiceInv
      /\ UNCHANGED <<env, preloading, value, given, limit>> /\ UNCHANGED outVars
      /\ \/ name # Absent /\ Then(t, <<a>>) /\ init' = init
         \/ name = Absent /\ old # Absent /\ Then(t, <<w, b>>) /\ init' = init
         \/ /\ preloading \/ (name = Absent /\ old = Absent)
            /\ init' = NotFound(o) /\ Then(t, <<>>)
  BY <1>0 DEF OptionInit, MessageContext
<1>2. o \in Option /\ Head(todo[t])[2] = o
  BY <1>0, <1>1, NowTyped DEF Typed, Arg
<1>3. name \in Int \cup {Absent, Bogus} /\ old \in Int \cup {Absent, Bogus}
  <2>1. env \in [name : [Option -> Int \cup {Absent, Bogus}], old : [Option -> Int \cup {Absent, Bogus}]]
    BY <1>1, MessagesAssumption DEF ChoiceInv
  <2> QED
    BY <1>0, <1>2, <2>1
<1>4. EnvOf(o) = IF name # Absent THEN name ELSE old
  BY <1>0 DEF EnvOf
<1>5. OptionStep(Head(todo[t])) /\ Head(todo[t])[1] = "getenv" /\ ValueInv(o)
  BY <1>1, <1>2, NowTyped DEF OptionsInv
<1>6. given[o] = Absent
  BY <1>2, <1>5 DEF OptionStep
<1>7. w \in Frame /\ w[1] = "message" /\ a[1] = "parse" /\ b[1] = "parse"
  BY FrameText DEF Kind
<1>8. /\ name # Absent => a \in Frame /\ a[2] = o /\ a[3] = name
      /\ old # Absent => b \in Frame /\ b[2] = o /\ b[3] = old
  BY <1>2, <1>3, FrameText
<1>9. UNCHANGED <<env, preloading, given, loaded, program, life, value, outLen, outBuf>>
  BY <1>1 DEF outVars, MessageContext
<1>10. EnvOf(o)' = EnvOf(o)
  BY <1>9 DEF EnvOf
<1> HIDE DEF a, b, w
<1>11. "getenv" \in TextNames /\ \A s \in {a, b, w} : s[1] \in MessageNames
  BY <1>7 DEF TextNames, MessageNames
<1>12. CASE name # Absent /\ Then(t, <<a>>) /\ init' = init
  <2>1. a \in Frame /\ a[2] = o /\ a[3] = name /\ EnvOf(o) = name
    BY <1>4, <1>8, <1>12
  <2>2. May(t, <<a>>) /\ Elements(<<a>>) = {a}
    BY <1>7, <2>1, MayOne DEF MainNames
  <2>3. Does(t, "getenv", <<a>>)
    BY <1>1, <1>11, <1>12, <2>2, MessageThen
  <2>4. ValueInv(o)'
    BY <1>1, <1>5, <1>9, <1>12, <2>3, ValueSame
  <2>5. OptionStep(a)'
    BY <1>6, <1>7, <1>9, <1>10, <1>12, <2>1 DEF OptionStep
  <2>6. HasFor(t, {"get", "getenv", "parse", "initialized"}, o)'
    BY <1>1, <1>7, <2>1, <2>2, <2>3, DoesAhead DEF HasFor
  <2>7. OptionMoved(t, o, <<a>>)
    BY <1>7, <1>9, <1>12, <2>2, <2>4, <2>5, <2>6 DEF OptionMoved
  <2>8. MessagesTypeOK'
    BY <1>1, <1>12 DEF MessageContext, MessagesTypeOK, outVars
  <2> QED
    BY <1>2, <1>7, <1>9, <2>2, <2>3, <2>7, <2>8, OptionKeeps
<1>13. CASE name = Absent /\ old # Absent /\ Then(t, <<w, b>>) /\ init' = init
  <2>1. b \in Frame /\ b[2] = o /\ b[3] = old /\ EnvOf(o) = old
    BY <1>4, <1>8, <1>13
  <2>2. May(t, <<w, b>>) /\ Elements(<<w, b>>) = {w, b}
    <3>1. Over(b, w) /\ {w[1], b[1]} \cap MainNames = {}
      BY <1>7 DEF Over, HeadNames, MainNames
    <3> QED
      BY <1>7, <2>1, <3>1, MayTwo
  <2>3. Does(t, "getenv", <<w, b>>)
    BY <1>1, <1>11, <1>13, <2>2, MessageThen
  <2>4. ValueInv(o)'
    BY <1>1, <1>5, <1>9, <1>13, <2>3, ValueSame
  <2>5. OptionStep(b)' /\ OptionStep(w)'
    BY <1>6, <1>7, <1>9, <1>10, <1>13, <2>1 DEF OptionStep
  <2>6. HasFor(t, {"get", "getenv", "parse", "initialized"}, o)'
    BY <1>1, <1>7, <2>1, <2>2, <2>3, DoesAhead DEF HasFor
  <2>7. OptionMoved(t, o, <<w, b>>)
    BY <1>7, <1>9, <1>13, <2>2, <2>4, <2>5, <2>6 DEF OptionMoved
  <2>8. MessagesTypeOK'
    BY <1>1, <1>13 DEF MessageContext, MessagesTypeOK, outVars
  <2> QED
    BY <1>2, <1>7, <1>9, <2>2, <2>3, <2>7, <2>8, OptionKeeps
<1>14. CASE /\ preloading \/ (name = Absent /\ old = Absent)
            /\ init' = NotFound(o) /\ Then(t, <<>>)
  <2>1. Does(t, "getenv", <<>>) /\ Elements(<<>>) = {}
    BY <1>1, <1>11, <1>14, MayNone, MessageThen
  <2>2. init \in [Option -> {"UNINIT", "DEFAULTED", "INITIALIZED"}]
    BY DEF MessageContext, MessagesTypeOK
  <2>3. /\ \A p \in Option \ {o} : init'[p] = init[p]
        /\ init'[o] = IF preloading THEN init[o] ELSE "DEFAULTED"
        /\ init' \in [Option -> {"UNINIT", "DEFAULTED", "INITIALIZED"}]
    BY <1>2, <1>14, <2>2 DEF NotFound
  <2>4. ValueInv(o)'
    <3>1. CASE preloading
      <4>1. init'[o] = init[o] /\ value'[o] = value[o] /\ UNCHANGED <<env, given>>
        BY <1>9, <2>3, <3>1
      <4> QED
        BY <1>1, <1>5, <2>1, <4>1, ValueSame
    <3>2. CASE ~preloading
      <4>1. EnvOf(o) = Absent
        BY <1>4, <1>14, <3>2
      <4>2. \A u \in Thread : Has(u, "quiet") => Has(u, "quiet")'
        BY <1>1, <2>1, DoesAhead
      <4> QED
        BY <1>5, <1>6, <1>9, <1>10, <4>1, <4>2 DEF ValueInv
    <3> QED
      BY <3>1, <3>2
  <2>5. loaded => init'[o] # "UNINIT" \/ Has(Main, "options_init")
    <3>1. CASE preloading /\ init[o] = "UNINIT"
      <4>1. ~Ready
        BY <1>2, <3>1 DEF Ready
      <4> QED
        BY <1>1, <3>1, <4>1 DEF OptionsInv, LoadInv
    <3>2. CASE ~preloading \/ init[o] # "UNINIT"
      BY <2>3, <3>2
    <3> QED
      BY <3>1, <3>2
  <2>6. OptionMoved(t, o, <<>>)
    BY <1>9, <2>1, <2>3, <2>4, <2>5 DEF OptionMoved
  <2>7. MessagesTypeOK'
    BY <1>1, <2>3 DEF MessageContext, MessagesTypeOK, outVars
  <2> QED
    BY <1>2, <1>9, <2>1, <2>6, <2>7, OptionKeeps
<1> QED
  BY <1>1, <1>12, <1>13, <1>14

LEMMA KeepOptionParse == ASSUME NEW t, MessageContext(t), OptionParse(t) PROVE MessageKeeps(t)
<1>0. PICK o, v : o = Arg(t, 1) /\ v = Arg(t, 2)
  OBVIOUS
<1> DEFINE a == <<"initialized", o>>
           w == <<"message", "warning">>
           q == <<"quiet">>
<1>1. /\ Now(t, "parse") /\ t \in Thread /\ StackInv /\ OptionsInv
      /\ UNCHANGED <<env, preloading, given, limit>> /\ UNCHANGED outVars
      /\ \/ v # Bogus /\ value' = [value EXCEPT ![o] = v] /\ Then(t, <<a>>) /\ init' = init
         \/ /\ v = Bogus /\ init' = [init EXCEPT ![o] = "DEFAULTED"]
            /\ o = "verbose" /\ value' = [value EXCEPT ![o] = 1] /\ Then(t, <<w, q>>)
         \/ /\ v = Bogus /\ init' = [init EXCEPT ![o] = "DEFAULTED"]
            /\ value' = value /\ Then(t, <<w>>)
  BY <1>0 DEF OptionParse, MessageContext
<1>2. o \in Option /\ Head(todo[t])[2] = o /\ v \in Int \cup {Bogus} /\ Head(todo[t])[3] = v
  BY <1>0, <1>1, NowTyped DEF Typed, Arg
<1>3. OptionStep(Head(todo[t])) /\ Head(todo[t])[1] = "parse" /\ ValueInv(o)
  BY <1>1, <1>2, NowTyped DEF OptionsInv
<1>4. given[o] = Absent /\ v = EnvOf(o)
  BY <1>2, <1>3 DEF OptionStep
<1>5. /\ a \in Frame /\ a[1] = "initialized" /\ a[2] = o
      /\ w \in Frame /\ w[1] = "message" /\ q \in Frame /\ q[1] = "quiet"
  BY <1>2, FrameText, FrameLife DEF Kind
<1>6. UNCHANGED <<env, preloading, given, loaded, program, life, outLen, outBuf>>
  BY <1>1 DEF outVars, MessageContext
<1>7. EnvOf(o)' = EnvOf(o)
  BY <1>6 DEF EnvOf
<1>8. /\ value \in [Option -> Int] /\ init \in [Option -> {"UNINIT", "DEFAULTED", "INITIALIZED"}]
  BY DEF MessageContext, MessagesTypeOK
<1> HIDE DEF a, w, q
<1>9. "parse" \in TextNames /\ \A s \in {a, w, q} : s[1] \in MessageNames
  BY <1>5 DEF TextNames, MessageNames
<1>10. /\ \A x \in Option \ {o} : \A y : [value EXCEPT ![o] = y][x] = value[x] /\ [init EXCEPT ![o] = y][x] = init[x]
       /\ \A y : [value EXCEPT ![o] = y][o] = y /\ [init EXCEPT ![o] = y][o] = y
  BY <1>2, <1>8
<1>11. CASE v # Bogus /\ value' = [value EXCEPT ![o] = v] /\ Then(t, <<a>>) /\ init' = init
  <2>1. v \in Int /\ EnvOf(o) \notin {Absent, Bogus} /\ value'[o] = v
    BY <1>2, <1>4, <1>10, <1>11, MessagesAssumption
  <2>2. May(t, <<a>>) /\ Elements(<<a>>) = {a}
    BY <1>5, MayOne DEF MainNames
  <2>3. Does(t, "parse", <<a>>)
    BY <1>1, <1>9, <1>11, <2>2, MessageThen
  <2>4. HasFor(t, {"initialized"}, o)' /\ HasFor(t, {"get", "getenv", "parse", "initialized"}, o)'
    BY <1>1, <1>5, <2>2, <2>3, DoesAhead DEF HasFor
  <2>5. ValueInv(o)'
    BY <1>1, <1>4, <1>6, <1>7, <2>1, <2>4 DEF ValueInv
  <2>6. OptionStep(a)'
    BY <1>4, <1>5, <1>7, <2>1 DEF OptionStep
  <2>7. OptionMoved(t, o, <<a>>)
    BY <1>4, <1>5, <1>6, <1>10, <1>11, <2>1, <2>2, <2>4, <2>5, <2>6 DEF OptionMoved
  <2>8. MessagesTypeOK'
    BY <1>1, <1>2, <1>8, <1>11, <2>1 DEF MessageContext, MessagesTypeOK, outVars
  <2> QED
    BY <1>2, <1>5, <1>6, <2>2, <2>3, <2>7, <2>8, OptionKeeps
<1>12. CASE /\ v = Bogus /\ init' = [init EXCEPT ![o] = "DEFAULTED"]
            /\ o = "verbose" /\ value' = [value EXCEPT ![o] = 1] /\ Then(t, <<w, q>>)
  <2>1. EnvOf(o) = Bogus /\ init'[o] = "DEFAULTED"
    BY <1>4, <1>10, <1>12
  <2>2. May(t, <<w, q>>) /\ Elements(<<w, q>>) = {w, q}
    <3>1. Over(q, w) /\ {w[1], q[1]} \cap MainNames = {}
      BY <1>5 DEF Over, HeadNames, MainNames
    <3> QED
      BY <1>5, <3>1, MayTwo
  <2>3. Does(t, "parse", <<w, q>>)
    BY <1>1, <1>9, <1>12, <2>2, MessageThen
  <2>4. Has(t, "quiet")'
    BY <1>1, <1>5, <2>2, <2>3, DoesAhead DEF Has
  <2>5. ValueInv(o)'
    BY <1>1, <1>4, <1>6, <1>7, <1>12, <2>1, <2>4 DEF ValueInv
  <2>6. OptionStep(w)' /\ OptionStep(q)'
    BY <1>4, <1>5, <1>6, <1>7, <1>12, <2>1 DEF OptionStep
  <2>7. OptionMoved(t, o, <<w, q>>)
    BY <1>5, <1>6, <1>10, <1>12, <2>1, <2>2, <2>5, <2>6 DEF OptionMoved
  <2>8. MessagesTypeOK'
    BY <1>1, <1>2, <1>8, <1>12 DEF MessageContext, MessagesTypeOK, outVars
  <2> QED
    BY <1>2, <1>5, <1>6, <2>2, <2>3, <2>7, <2>8, OptionKeeps
<1>13. CASE /\ v = Bogus /\ init' = [init EXCEPT ![o] = "DEFAULTED"]
            /\ value' = value /\ Then(t, <<w>>)
  <2>1. EnvOf(o) = Bogus /\ init'[o] = "DEFAULTED"
    BY <1>4, <1>10, <1>13
  <2>2. May(t, <<w>>) /\ Elements(<<w>>) = {w}
    BY <1>5, MayOne DEF MainNames
  <2>3. Does(t, "parse", <<w>>)
    BY <1>1, <1>9, <1>13, <2>2, MessageThen
  <2>4. \A u \in Thread : Has(u, "quiet") => Has(u, "quiet")'
    BY <1>1, <2>3, DoesAhead
  <2>5. ValueInv(o)'
    BY <1>3, <1>4, <1>6, <1>7, <1>13, <2>1, <2>4 DEF ValueInv
  <2>6. OptionStep(w)'
    BY <1>5 DEF OptionStep
  <2>7. OptionMoved(t, o, <<w>>)
    BY <1>5, <1>6, <1>10, <1>13, <2>1, <2>2, <2>5, <2>6 DEF OptionMoved
  <2>8. MessagesTypeOK'
    BY <1>1, <1>2, <1>8, <1>13 DEF MessageContext, MessagesTypeOK, outVars
  <2> QED
    BY <1>2, <1>5, <1>6, <2>2, <2>3, <2>7, <2>8, OptionKeeps
<1> QED
  BY <1>1, <1>11, <1>12, <1>13

LEMMA KeepOptionInitialized ==
    ASSUME NEW t, MessageContext(t), OptionInitialized(t)
    PROVE  MessageKeeps(t)
<1>0. PICK o : o = Arg(t, 1)
  OBVIOUS
<1>1. /\ Now(t, "initialized") /\ t \in Thread /\ StackInv /\ OptionsInv /\ Then(t, <<>>)
      /\ init' = [init EXCEPT ![o] = "INITIALIZED"]
      /\ UNCHANGED <<env, preloading, value, given, limit>> /\ UNCHANGED outVars
  BY <1>0 DEF OptionInitialized, MessageContext
<1>2. o \in Option /\ Head(todo[t])[2] = o
  BY <1>0, <1>1, NowTyped DEF Typed, Arg
<1>3. OptionStep(Head(todo[t])) /\ Head(todo[t])[1] = "initialized" /\ ValueInv(o)
  BY <1>1, <1>2, NowTyped DEF OptionsInv
<1>4. given[o] # Absent \/ (EnvOf(o) \notin {Absent, Bogus} /\ value[o] = EnvOf(o))
  BY <1>2, <1>3 DEF OptionStep
<1>5. UNCHANGED <<env, preloading, value, given, loaded, program, life, outLen, outBuf>>
  BY <1>1 DEF outVars, MessageContext
<1>6. EnvOf(o)' = EnvOf(o)
  BY <1>5 DEF EnvOf
<1>7. init \in [Option -> {"UNINIT", "DEFAULTED", "INITIALIZED"}]
  BY DEF MessageContext, MessagesTypeOK
<1>8. (\A p \in Option \ {o} : init'[p] = init[p]) /\ init'[o] = "INITIALIZED"
  BY <1>1, <1>2, <1>7
<1>9. "initialized" \in TextNames
  BY DEF TextNames, MessageNames
<1>10. Does(t, "initialized", <<>>) /\ Elements(<<>>) = {}
  BY <1>1, <1>9, MayNone, MessageThen
<1>11. ValueInv(o)'
  BY <1>3, <1>4, <1>5, <1>6, <1>8 DEF ValueInv
<1>12. OptionMoved(t, o, <<>>)
  BY <1>5, <1>8, <1>10, <1>11 DEF OptionMoved
<1>13. MessagesTypeOK'
  BY <1>1, <1>2, <1>7 DEF MessageContext, MessagesTypeOK, outVars
<1> QED
  BY <1>2, <1>5, <1>10, <1>12, <1>13, OptionKeeps

LEMMA KeepVerboseQuiet == ASSUME NEW t, MessageContext(t), VerboseQuiet(t) PROVE MessageKeeps(t)
<1> DEFINE o == "verbose"
<1>1. /\ Now(t, "quiet") /\ t \in Thread /\ StackInv /\ OptionsInv /\ Then(t, <<>>)
      /\ value' = [value EXCEPT ![o] = 0]
      /\ UNCHANGED <<env, preloading, init, given, limit>> /\ UNCHANGED outVars
  BY DEF VerboseQuiet, MessageContext
<1>2. o \in Option /\ Initial[o] = 0
  BY MessagesAssumption
<1>3. OptionStep(Head(todo[t])) /\ Head(todo[t])[1] = "quiet" /\ ValueInv(o)
  BY <1>1, <1>2, NowTyped DEF OptionsInv
<1>4. given[o] = Absent /\ EnvOf(o) = Bogus
  BY <1>3 DEF OptionStep
<1>5. UNCHANGED <<env, preloading, init, given, loaded, program, life, outLen, outBuf>>
  BY <1>1 DEF outVars, MessageContext
<1>6. EnvOf(o)' = EnvOf(o)
  BY <1>5 DEF EnvOf
<1>7. value \in [Option -> Int]
  BY DEF MessageContext, MessagesTypeOK
<1>8. (\A p \in Option \ {o} : value'[p] = value[p]) /\ value'[o] = 0
  BY <1>1, <1>2, <1>7
<1>9. "quiet" \in TextNames
  BY DEF TextNames, MessageNames
<1>10. Does(t, "quiet", <<>>) /\ Elements(<<>>) = {}
  BY <1>1, <1>9, MayNone, MessageThen
<1>11. ValueInv(o)'
  BY <1>2, <1>4, <1>5, <1>6, <1>8 DEF ValueInv
<1>12. t = Main /\ loaded => \/ init'[o] # "UNINIT" \/ Has(Main, "options_init")
                             \/ HasFor(Main, {"get", "getenv", "parse", "initialized"}, o)'
  <2>1. loaded => \/ init[o] # "UNINIT" \/ Has(Main, "options_init")
                  \/ HasFor(Main, {"get", "getenv", "parse", "initialized"}, o)
    BY <1>1, <1>2 DEF OptionsInv, LoadInv
  <2>2. t = Main /\ HasFor(Main, {"get", "getenv", "parse", "initialized"}, o)
           => HasFor(Main, {"get", "getenv", "parse", "initialized"}, o)'
    BY <1>1, <1>10, DoesAhead
  <2> QED
    BY <1>5, <2>1, <2>2
<1>13. OptionMoved(t, o, <<>>)
  BY <1>4, <1>5, <1>8, <1>10, <1>11, <1>12 DEF OptionMoved
<1>14. MessagesTypeOK'
  BY <1>1, <1>2, <1>7 DEF MessageContext, MessagesTypeOK, outVars
<1> QED
  BY <1>2, <1>5, <1>10, <1>13, <1>14, OptionKeeps

\* The options are all asked for, once, while the program loads.
LEMMA KeepOptionsInit == ASSUME NEW t, MessageContext(t), OptionsInit(t) PROVE MessageKeeps(t)
<1> DEFINE f == <<"flush", FALSE>>
           e == <<"add_stderr">>
           l == <<"limits">>
           ends == <<f, e>>
           gets == [i \in DOMAIN Options |-> <<"get", Options[i]>>]
           last == <<l>>
           c == ends \o gets \o last
<1>1. /\ Now(t, "options_init") /\ t \in Thread /\ StackInv /\ OptionsInv /\ OutputInv /\ ChoiceInv
      /\ Then(t, c) /\ UNCHANGED messageVars /\ UNCHANGED <<loaded, program, life>>
  BY DEF OptionsInit, MessageContext
<1>2. /\ ~Idle(t) /\ Head(todo[t])[1] = "options_init" /\ Head(todo[t]) \in Ahead(t) /\ t = Main
      /\ Has(Main, "options_init")
  <2>1. ~Idle(t) /\ Head(todo[t])[1] = "options_init" /\ Head(todo[t]) \in Ahead(t)
    BY <1>1, NowTyped
  <2>2. t = Main
    BY <1>1, <2>1 DEF StackInv, MainNames
  <2> QED
    BY <2>1, <2>2 DEF Has
<1>3. /\ f \in Frame /\ e \in Frame /\ l \in Frame
      /\ f[1] = "flush" /\ e[1] = "add_stderr" /\ l[1] = "limits"
  BY FrameText, FrameLife
<1>4. gets \in Seq(Frame) /\ \A i \in DOMAIN gets : gets[i][1] = "get"
  <2>1. \A o \in Option : <<"get", o>> \in Frame
    BY FrameText
  <2>2. \A i \in DOMAIN Options : <<"get", Options[i]>> \in Frame
    BY <2>1 DEF Option
  <2>3. DOMAIN Options = 1..Len(Options) /\ Len(Options) \in Nat
    BY MessagesAssumption
  <2> QED
    BY <2>2, <2>3
<1>5. \A o \in Option : <<"get", o>> \in Elements(gets)
  BY DEF Option, Elements
<1>6. \A s \in Elements(gets) : s[1] = "get"
  BY <1>4 DEF Elements
<1> HIDE DEF f, e, l, ends, gets, last
<1>7. May(t, ends) /\ Elements(ends) = {f, e}
  <2>1. Over(e, f)
    BY <1>3 DEF Over, HeadNames
  <2> QED
    BY <1>2, <1>3, <2>1, MayTwo DEF ends
<1>8. May(t, gets)
  <2>1. Stacked(gets)
    <3>1. ASSUME NEW i \in DOMAIN gets, NEW j \in 1..(i - 1)
          PROVE  Over(gets[i], gets[j])
      <4>1. DOMAIN gets = 1..Len(gets) /\ Len(gets) \in Nat
        BY <1>4
      <4>2. j \in DOMAIN gets
        BY <4>1
      <4> QED
        BY <1>4, <4>2 DEF Over, HeadNames
    <3> QED
      BY <3>1 DEF Stacked
  <2> QED
    BY <1>2, <1>4, <2>1 DEF May
<1>9. May(t, last) /\ Elements(last) = {l}
  BY <1>2, <1>3, MayOne DEF last
<1>10. May(t, ends \o gets) /\ Elements(ends \o gets) = {f, e} \cup Elements(gets)
  <2>1. \A x \in Elements(ends), y \in Elements(gets) : Over(y, x)
    BY <1>3, <1>6, <1>7 DEF Over, HeadNames
  <2> QED
    BY <1>7, <1>8, <2>1, MayJoin
<1>11. May(t, c) /\ Elements(c) = {f, e} \cup Elements(gets) \cup {l}
  <2>1. \A x \in Elements(ends \o gets), y \in Elements(last) : Over(y, x)
    BY <1>3, <1>6, <1>9, <1>10 DEF Over, HeadNames
  <2>2. /\ May(t, (ends \o gets) \o last)
        /\ Elements((ends \o gets) \o last) = Elements(ends \o gets) \cup Elements(last)
    BY <1>9, <1>10, <2>1, MayJoin
  <2> QED
    BY <1>9, <1>10, <2>2
<1> HIDE DEF c
<1>12. \A s \in Elements(c) : s[1] \in {"flush", "add_stderr", "get", "limits"}
  BY <1>3, <1>6, <1>11
<1>13. Does(t, "options_init", c)
  <2>1. \A s \in Elements(c) : Closed(Head(todo[t])[1], s[1])
    BY <1>2, <1>12 DEF Closed, CountNames, DoneNames, MessageNames
  <2>2. Stepped(t, c)
    BY <1>1, <1>2, <1>11, <2>1, ThenStepped
  <2> QED
    BY <1>1, <1>2, <2>2 DEF Does
<1>14. \A s \in Elements(c) : s[1] \in TextNames /\ OptionStep(s)' /\ OptionStep(s)
  BY <1>12 DEF TextNames, MessageNames, OptionStep
<1>15. MessagesTypeOK' /\ ChoiceInv'
  BY <1>1 DEF messageVars, MessagesTypeOK, MessageContext, ChoiceInv
<1>16. UNCHANGED <<env, preloading, given, loaded, program, life, value, init, outLen, outBuf>>
  BY <1>1 DEF messageVars
<1>17. OutputInv'
  <2>1. Avoids(c, {"copy", "terminate", "deliver"}) /\ Stepped(t, c)
    BY <1>12, <1>13 DEF Avoids, Does
  <2> QED
    BY <1>1, <1>16, <2>1, OutputKept
<1>18. OptionsInv'
  <2>1. Ready' <=> Ready
    BY <1>16 DEF Ready
  <2>2. \A s : OptionStep(s)' <=> OptionStep(s)
    BY <1>16, <2>1 DEF OptionStep, EnvOf
  <2>3. /\ \A u \in Thread \ {t} : Ahead(u)' = Ahead(u)
        /\ \A s \in Ahead(t)' : s \in Elements(c) \/ s \in Ahead(t)
    BY <1>1, <1>13, SteppedAhead DEF Does
  <2>4. \A u \in Thread : \A s \in Ahead(u)' : OptionStep(s)'
    BY <1>1, <1>14, <2>2, <2>3 DEF OptionsInv
  <2>5. \A o \in Option : ValueInv(o)'
    BY <1>1, <1>13, <1>16, ValueSame DEF OptionsInv
  <2>6. preloading => Ready
    <3>1. SUFFICES ASSUME preloading, Has(Main, "loading")
                   PROVE  FALSE
      BY <1>1, <1>2 DEF OptionsInv, LoadInv
    <3>2. PICK s \in Ahead(t) : s[1] = "loading"
      BY <1>2, <3>1 DEF Has
    <3>3. s \in Rest(t) /\ Over(s, Head(todo[t]))
      BY <1>2, <1>13, <3>2 DEF Does, Stepped
    <3> QED
      BY <1>2, <3>2, <3>3 DEF Over
  <2>7. \A o \in Option : HasFor(Main, {"get", "getenv", "parse", "initialized"}, o)'
    <3> TAKE o \in Option
    <3> DEFINE g == <<"get", o>>
    <3>1. g \in Elements(c) /\ g[1] = "get" /\ g[2] = o
      BY <1>5, <1>11
    <3> HIDE DEF g
    <3>2. g \in Ahead(Main)'
      BY <1>1, <1>2, <1>13, <3>1, DoesAhead
    <3> QED
      BY <3>1, <3>2 DEF HasFor
  <2>8. LoadInv'
    BY <1>1, <1>16, <2>1, <2>6, <2>7 DEF OptionsInv, LoadInv
  <2> QED
    BY <2>4, <2>5, <2>8 DEF OptionsInv
<1> QED
  BY <1>13, <1>14, <1>15, <1>17, <1>18 DEF MessageKeeps

\* So does every step of an option or a message.
LEMMA MessageSteps == ASSUME NEW t, MessageContext(t), MessageStep(t) PROVE MessageKeeps(t)
<1>1. OptionGet(t) \/ OptionInit(t) \/ OptionParse(t) \/ OptionInitialized(t)
         \/ VerboseQuiet(t) \/ OptionsInit(t) \/ SetLimits(t) => MessageKeeps(t)
  BY KeepOptionGet, KeepOptionInit, KeepOptionParse, KeepOptionInitialized, KeepVerboseQuiet,
     KeepOptionsInit, KeepSetLimits
<1>2. Message(t) \/ IfVerbose(t) \/ IfShown(t) \/ Fputs(t) \/ Out(t) \/ ClaimOutput(t)
         => MessageKeeps(t)
  BY KeepMessage, KeepIfVerbose, KeepIfShown, KeepFputs, KeepOut, KeepClaim
<1>3. CopyOutput(t) \/ FlushOutput(t) \/ Terminate(t) \/ Deliver(t) \/ AddStderr(t)
         => MessageKeeps(t)
  BY KeepCopy, KeepFlush, KeepTerminate, KeepDeliver, KeepAddStderr
<1> QED
  BY <1>1, <1>2, <1>3 DEF MessageStep

(***************************************************************************)
(* The steps of the process: what most of them keep.                       *)
(***************************************************************************)
\* The part of the type invariant that is about neither messages nor statistics.
LifeTypeOK ==
    /\ {once, tlsDone, key, exited, loaded, drift} \subseteq BOOLEAN
    /\ mainId \in Thread \cup {NoThread} /\ threads \in Int
    /\ default \in [Thread -> DefaultHeap]
    /\ keyValue \in [Thread -> DefaultHeap \cup {Null}]
    /\ owner \in [Td -> Thread \cup {NoThread}]
    /\ cache \in [Slot -> Td \cup {Null}]
    /\ mapped \subseteq Td /\ memid \in [Td -> {"none", "os"}]
    /\ life \in [Thread -> {"unborn", "runs", "over"}] /\ pages \in Int

LEMMA TypeParts == /\ TypeOK <=> MessagesTypeOK /\ StatsTypeOK /\ LifeTypeOK
                   /\ TypeOK' <=> MessagesTypeOK' /\ StatsTypeOK' /\ LifeTypeOK'
BY DEF TypeOK, LifeTypeOK

\* Main is a thread, and heaps are what they are.
LEMMA Heaps == /\ Main \in Thread /\ HeapMain \in DefaultHeap /\ HeapEmpty \in DefaultHeap
               /\ HeapMain \notin Td /\ HeapEmpty \notin Td /\ HeapMain # HeapEmpty
               /\ Td \subseteq DefaultHeap /\ Td \subseteq Tld /\ HeapMain \in Tld /\ Null \notin Td
               /\ \A h \in DefaultHeap : h = HeapEmpty \/ (h \in Tld /\ (h = HeapMain \/ h \in Td))
BY ProcessAssumption DEF DefaultHeap

LEMMA NowThen ==
    ASSUME StackInv, NEW t \in Thread, NEW n, Now(t, n), NEW c, May(t, c), Then(t, c),
           \A s \in Elements(c) : Closed(n, s[1])
    PROVE  Does(t, n, c)
<1>1. ~Idle(t) /\ Head(todo[t])[1] = n
  BY NowTyped
<1>2. Stepped(t, c)
  BY <1>1, ThenStepped
<1> QED
  BY <1>1, <1>2 DEF Does

\* A thread that is idle and stays so.
LEMMA StillStepped ==
    ASSUME StackInv, NEW t \in Thread, Idle(t), UNCHANGED todo
    PROVE  Stepped(t, <<>>)
<1>1. Rest(t) = {} /\ Ahead(t) = {} /\ Ahead(t)' = {} /\ Idle(t)'
  BY DEF Rest, Ahead, Idle
<1>2. StackInv'
  <2>1. \A u \in Thread : Ahead(u)' = Ahead(u)
    BY DEF Ahead
  <2> QED
    BY <2>1 DEF StackInv, Stacked
<1> QED
  BY <1>1, <1>2, MayNone DEF Stepped, May, Idle

\* While the process has not begun, the main thread has only its first steps ahead of it;
\* the other threads begin when it has.
LEMMA NotEarly ==
    ASSUME StackInv, BootInv, NEW t \in Thread, NEW n, Now(t, n), n \notin EarlyNames
    PROVE  t = Main => once \/ loaded
<1>1. Head(todo[t]) \in Ahead(t) /\ Head(todo[t])[1] = n
  BY NowTyped
<1> QED
  BY <1>1 DEF BootInv

LEMMA OthersStarted ==
    ASSUME BootInv, NEW t \in Thread, t # Main, ~Idle(t) \/ life[t] # "unborn"
    PROVE  Started
BY DEF BootInv

\* Who is a main thread.
LEMMA MainThread ==
    ASSUME BootInv, NEW t \in Thread, ~Idle(t) \/ life[t] # "unborn"
    PROVE  IsMainThread(t) <=> t = Main
<1>1. CASE t = Main
  BY <1>1 DEF BootInv, IsMainThread
<1>2. CASE t # Main
  BY <1>2, OthersStarted, ProcessAssumption DEF Started, IsMainThread
<1> QED
  BY <1>1, <1>2

\* What threads have ahead of them apart from options and output, and the parts of the
\* invariant that steps with such names only keep.
LifeNames == CountNames \cup DataNames \cup
    {"message", "get", "malloc", "thread_init", "process_init", "heap_init", "heap_main_init",
     "auto_done", "key", "adopt_main", "collect", "stats_print", "print_merge", "drain",
     "drain_take", "stats_reset"}

Carried == StackInv' /\ MessagesTypeOK' /\ ChoiceInv' /\ OutputInv' /\ OptionsInv'

LEMMA Carry ==
    ASSUME IInv, NEW t \in Thread, NEW c, Stepped(t, c), UNCHANGED <<messageVars, loaded, program>>,
           \A s \in Elements(c) : s[1] \in LifeNames \/ (s[1] \in {"process_done", "unload"} /\ Ready),
           NotAt(t, ReadNames),
           \A u \in Thread \ {Main} :
              life'[u] = life[u] \/ life[u] # "unborn" \/ "early" \in program[u] \/ Ready
    PROVE  Carried
<1>1. /\ OutputInv /\ OptionsInv /\ StackInv' /\ MessagesTypeOK /\ ChoiceInv
      /\ UNCHANGED <<env, preloading, value, init, given, outLen, outBuf>>
  BY TypeParts DEF IInv, Stepped, messageVars
<1>2. Avoids(c, {"copy", "terminate", "deliver"})
  BY DEF Avoids, LifeNames, DataNames, CountNames
<1>3. \A s \in Elements(c) : OptionStep(s) /\ s[1] # "options_init"
  <2> TAKE s \in Elements(c)
  <2>1. CASE s[1] \in LifeNames
    BY <2>1 DEF LifeNames, DataNames, CountNames, OptionStep
  <2>2. CASE s[1] \in {"process_done", "unload"} /\ Ready
    BY <2>2 DEF OptionStep
  <2> QED
    BY <2>1, <2>2
<1>4. NotAt(t, ReadNames \ {"loading"}) /\ NotAt(t, {"loading"})
  BY DEF NotAt, ReadNames
<1>5. OutputInv'
  BY <1>1, <1>2, OutputKept
<1>6. OptionsInv'
  BY <1>1, <1>3, <1>4, OptionsCarried, Heaps
<1>7. MessagesTypeOK' /\ ChoiceInv'
  BY <1>1 DEF messageVars, MessagesTypeOK, ChoiceInv
<1> QED
  BY <1>1, <1>5, <1>6, <1>7 DEF Carried

\* A step that does nothing to the start of the process and to thread data.
StartSame == UNCHANGED <<once, tlsDone, key, mainId, loaded, life>>
DataSame == UNCHANGED <<default, keyValue, key, owner, cache, mapped, memid, life>>
Together == StatsTypeOK' /\ LifeTypeOK' /\ BootInv' /\ DataInv' /\ Carried

LEMMA TogetherHolds == Together => IInv'
BY TypeParts DEF Together, Carried, IInv

LEMMA Quietly ==
    ASSUME IInv, NEW t \in Thread, NEW c, NEW n, Does(t, n, c), StartSame, DataSame,
           UNCHANGED <<messageVars, program>>, StatsTypeOK', LifeTypeOK',
           \A s \in Elements(c) : s[1] \in LifeNames \ DataNames
                                  \/ (s[1] \in {"process_done", "unload"} /\ Ready),
           n \notin ReadNames \cup BootNames
                       \cup {"fill", "adopt", "put", "put_cas", "thread_done", "heap_done", "destructors"},
           (t = Main /\ ~once /\ ~loaded) => \A s \in Elements(c) : s[1] \in EarlyNames \ {"heap_init"}
    PROVE  IInv'
<1>1. Stepped(t, c) /\ ~Idle(t) /\ BootInv /\ DataInv
  BY DEF Does, IInv
<1>2. /\ NotAt(t, ReadNames) /\ NotAt(t, BootNames)
      /\ NotAt(t, {"fill", "adopt", "put", "put_cas", "thread_done", "heap_done", "destructors"})
  BY DEF NotAt, Does
<1>3. \A u \in Thread : life'[u] = life[u]
  BY DEF StartSame
<1>4. Carried
  BY <1>1, <1>2, <1>3, Carry DEF StartSame
<1>5. BootInv'
  BY <1>1, <1>2, <1>3, BootKept, Heaps DEF StartSame, DataSame
<1>6. DataInv'
  <2>1. Avoids(c, DataNames)
    BY DEF Avoids, DataNames
  <2> QED
    BY <1>1, <1>2, <2>1, DataKept DEF DataSame
<1> QED
  BY <1>4, <1>5, <1>6, TogetherHolds DEF Together

LEMMA ControlFacts ==
    ASSUME IInv, Control
    PROVE  StartSame /\ DataSame /\ UNCHANGED <<messageVars, program>> /\ StatsTypeOK' /\ LifeTypeOK'
<1>1. StatsTypeOK /\ LifeTypeOK
  BY TypeParts DEF IInv
<1>2. UNCHANGED <<once, tlsDone, key, mainId, exited, threads, owner, cache, mapped, memid,
                  program, life, loaded, pages, drift, default, keyValue, messageVars, total, local>>
  BY DEF Control, processVars, tdVars, lifeVars, statVars
<1>3. StatsTypeOK' /\ LifeTypeOK'
  BY <1>1, <1>2 DEF StatsTypeOK, LifeTypeOK
<1> QED
  BY <1>2, <1>3 DEF StartSame, DataSame

(***************************************************************************)
(* Steps that only keep.                                                   *)
(***************************************************************************)
LEMMA DoMessage ==
    ASSUME IInv, NEW t \in Thread, MessageStep(t),
           UNCHANGED <<statVars, processVars, tdVars, lifeVars, default, keyValue>>
    PROVE  IInv'
<1>1. MessageContext(t)
  BY TypeParts DEF IInv, MessageContext, lifeVars
<1>2. /\ MessagesTypeOK' /\ ChoiceInv' /\ OptionsInv' /\ OutputInv'
      /\ \E c, n : /\ Does(t, n, c) /\ n \in TextNames \cup {"options_init"}
                   /\ \A s \in Elements(c) : s[1] \in TextNames
  BY <1>1, MessageSteps DEF MessageKeeps
<1>3. PICK c, n : /\ Does(t, n, c) /\ n \in TextNames \cup {"options_init"}
                  /\ \A s \in Elements(c) : s[1] \in TextNames
  BY <1>2
<1>4. Stepped(t, c) /\ StackInv' /\ ~Idle(t) /\ StackInv /\ BootInv /\ DataInv /\ Now(t, n)
  BY <1>3 DEF Does, Stepped, IInv
<1>5. UNCHANGED <<once, tlsDone, key, mainId, exited, threads, owner, cache, mapped, memid,
                  life, loaded, pages, drift, default, keyValue, total, local>>
  BY DEF processVars, tdVars, lifeVars, statVars
<1>6. StatsTypeOK' /\ LifeTypeOK'
  <2>1. StatsTypeOK /\ LifeTypeOK
    BY TypeParts DEF IInv
  <2> QED
    BY <1>5, <2>1 DEF StatsTypeOK, LifeTypeOK
<1>7. /\ n \notin EarlyNames /\ NotAt(t, BootNames) /\ Avoids(c, DataNames)
      /\ NotAt(t, {"fill", "adopt", "put", "put_cas", "thread_done", "heap_done", "destructors"})
  BY <1>3 DEF TextNames, MessageNames, EarlyNames, BootNames, DataNames, NotAt, Avoids, Does
<1>8. BootInv'
  <2>1. t = Main => once \/ loaded
    BY <1>4, <1>7, NotEarly
  <2> QED
    BY <1>4, <1>5, <1>7, <2>1, BootKept, Heaps
<1>9. DataInv'
  BY <1>4, <1>5, <1>7, DataKept
<1> QED
  BY <1>2, <1>4, <1>6, <1>8, <1>9, TogetherHolds DEF Together, Carried

LEMMA DoStat ==
    ASSUME IInv, NEW t \in Thread, StatStep(t),
           UNCHANGED <<messageVars, processVars, tdVars, lifeVars, default, keyValue>>
    PROVE  IInv'
<1>1. StatStepped(t) /\ StatsTypeOK'
  BY StatSteps, TypeParts DEF IInv
<1>2. PICK c : /\ Stepped(t, c) /\ ~Idle(t) /\ Head(todo[t])[1] \in StatNames
               /\ \A s \in Elements(c) : s[1] \in CountNames
  BY <1>1 DEF StatStepped
<1>3. PICK n : n = Head(todo[t])[1]
  OBVIOUS
<1>4. Does(t, n, c) /\ n \in StatNames
  BY <1>2, <1>3 DEF Does, Now, Idle
<1>5. /\ UNCHANGED <<once, tlsDone, key, mainId, exited, threads, owner, cache, mapped, memid,
                     life, loaded, pages, drift, default, keyValue, messageVars, program>>
  BY DEF processVars, tdVars, lifeVars
<1>6. LifeTypeOK'
  <2>1. LifeTypeOK
    BY TypeParts DEF IInv
  <2> QED
    BY <1>5, <2>1 DEF LifeTypeOK
<1>7. StartSame /\ DataSame
  BY <1>5 DEF StartSame, DataSame
<1>8. \A s \in Elements(c) : s[1] \in LifeNames \ DataNames
  BY <1>2 DEF LifeNames, CountNames, DataNames
<1>9. n \notin ReadNames \cup BootNames
                 \cup {"fill", "adopt", "put", "put_cas", "thread_done", "heap_done", "destructors"}
  BY <1>4 DEF StatNames, CountNames, ReadNames, BootNames
<1>10. t = Main => once \/ loaded
  <2>1. Now(t, n) /\ n \notin EarlyNames /\ StackInv /\ BootInv
    BY <1>4 DEF Does, EarlyNames, StatNames, CountNames, IInv
  <2> QED
    BY <2>1, NotEarly
<1> QED
  BY <1>1, <1>4, <1>5, <1>6, <1>7, <1>8, <1>9, <1>10, Quietly

LEMMA DoCountThread == ASSUME IInv, NEW t \in Thread, CountThread(t) PROVE IInv'
<1>1. /\ Now(t, "count") /\ Then(t, <<>>) /\ threads' = threads + Arg(t, 1)
      /\ UNCHANGED <<once, tlsDone, key, mainId, exited, owner, cache, mapped, memid, life, loaded,
                     pages, drift, default, keyValue, messageVars, program, total, local>>
      /\ StackInv /\ BootInv
  BY DEF CountThread, tdVars, lifeVars, statVars, IInv
<1>2. Does(t, "count", <<>>) /\ Elements(<<>>) = {}
  BY <1>1, MayNone, NowThen
<1>3. StatsTypeOK' /\ LifeTypeOK'
  <2>1. StatsTypeOK /\ LifeTypeOK
    BY TypeParts DEF IInv
  <2>2. Arg(t, 1) \in Int
    BY <1>1, NowTyped DEF Typed, Arg
  <2> QED
    BY <1>1, <2>1, <2>2 DEF StatsTypeOK, LifeTypeOK
<1>4. StartSame /\ DataSame
  BY <1>1 DEF StartSame, DataSame
<1>5. "count" \notin ReadNames \cup BootNames
                 \cup {"fill", "adopt", "put", "put_cas", "thread_done", "heap_done", "destructors"}
  BY DEF ReadNames, BootNames
<1> QED
  BY <1>1, <1>2, <1>3, <1>4, <1>5, Quietly

LEMMA DoMallocGeneric == ASSUME IInv, NEW t \in Thread, MallocGeneric(t) PROVE IInv'
<1> DEFINE a == <<"thread_init">>
<1>1. /\ Now(t, "malloc") /\ StackInv /\ Control
      /\ Then(t, <<>>) \/ Then(t, <<a>>)
  BY DEF MallocGeneric, IInv
<1>2. a \in Frame /\ a[1] = "thread_init"
  BY FrameLife
<1> HIDE DEF a
<1>3. May(t, <<a>>) /\ Elements(<<a>>) = {a}
  BY <1>2, MayOne DEF MainNames
<1>4. PICK c \in {<<>>, <<a>>} : Does(t, "malloc", c)
  <2>1. Closed("malloc", "thread_init")
    BY DEF Closed, CountNames, DoneNames, MessageNames
  <2>2. CASE Then(t, <<>>)
    BY <1>1, <2>2, MayNone, NowThen
  <2>3. CASE Then(t, <<a>>)
    BY <1>1, <1>2, <1>3, <2>1, <2>3, NowThen
  <2> QED
    BY <1>1, <2>2, <2>3
<1>5. \A s \in Elements(c) : s[1] = "thread_init"
  BY <1>2, <1>3, MayNone
<1>6. \A s \in Elements(c) : s[1] \in LifeNames \ DataNames /\ s[1] \in EarlyNames \ {"heap_init"}
  BY <1>5 DEF LifeNames, DataNames, EarlyNames
<1>7. "malloc" \notin ReadNames \cup BootNames
                 \cup {"fill", "adopt", "put", "put_cas", "thread_done", "heap_done", "destructors"}
  BY DEF ReadNames, BootNames
<1> QED
  BY <1>1, <1>4, <1>6, <1>7, ControlFacts, Quietly

LEMMA DoCacheDrain == ASSUME IInv, NEW t \in Thread, CacheDrain(t) PROVE IInv'
<1>0. PICK i : i = Arg(t, 1)
  OBVIOUS
<1> DEFINE a == <<"drain_take", i>>
           b == <<"drain", i + 1>>
<1>1. /\ Now(t, "drain") /\ StackInv /\ BootInv /\ Control
      /\ \/ Then(t, <<>>)
         \/ ~(i > Slots) /\ Then(t, <<>> \o <<b>>)
         \/ ~(i > Slots) /\ Then(t, <<a>> \o <<b>>)
  BY <1>0 DEF CacheDrain, IInv
<1>2. i \in Nat \ {0} /\ Slots \in Nat
  BY <1>0, <1>1, NowTyped, ProcessAssumption DEF Typed, Arg
<1>3. /\ b \in Frame /\ a[1] = "drain_take" /\ b[1] = "drain"
      /\ ~(i > Slots) => a \in Frame
  BY <1>2, FrameLife DEF Slot
<1> HIDE DEF a, b
<1>4. May(t, <<b>>) /\ Elements(<<b>>) = {b}
  BY <1>3, MayOne DEF MainNames
<1>5. May(t, <<>> \o <<b>>) /\ Elements(<<>> \o <<b>>) = {} \cup {b}
  BY <1>4, MayNone, MayJoin
<1>6. ~(i > Slots) => May(t, <<a>> \o <<b>>) /\ Elements(<<a>> \o <<b>>) = {a} \cup {b}
  <2> SUFFICES ASSUME ~(i > Slots)
               PROVE  May(t, <<a>> \o <<b>>) /\ Elements(<<a>> \o <<b>>) = {a} \cup {b}
    OBVIOUS
  <2>1. May(t, <<a>>) /\ Elements(<<a>>) = {a}
    BY <1>3, MayOne DEF MainNames
  <2>2. \A x \in Elements(<<a>>), y \in Elements(<<b>>) : Over(y, x)
    BY <1>3, <1>4, <2>1 DEF Over, HeadNames
  <2> DEFINE x == <<a>>
             y == <<b>>
  <2>3. May(t, x) /\ May(t, y) /\ \A p \in Elements(x), q \in Elements(y) : Over(q, p)
    BY <1>4, <2>1, <2>2
  <2> HIDE DEF x, y
  <2>4. May(t, x \o y) /\ Elements(x \o y) = Elements(x) \cup Elements(y)
    BY <2>3, MayJoin
  <2> QED
    BY <1>4, <2>1, <2>4 DEF x, y
<1>7. PICK c \in {<<>>, <<>> \o <<b>>, <<a>> \o <<b>>} : May(t, c) /\ Then(t, c) /\ Elements(c) \subseteq {a, b}
  <2>1. CASE Then(t, <<>>)
    BY <2>1, MayNone
  <2>2. CASE ~(i > Slots) /\ Then(t, <<>> \o <<b>>)
    BY <1>5, <2>2
  <2>3. CASE ~(i > Slots) /\ Then(t, <<a>> \o <<b>>)
    BY <1>6, <2>3
  <2> QED
    BY <1>1, <2>1, <2>2, <2>3
<1>8. \A s \in Elements(c) : s[1] \in {"drain", "drain_take"}
  BY <1>3, <1>7
<1>9. Does(t, "drain", c)
  <2>1. \A s \in Elements(c) : Closed("drain", s[1])
    BY <1>8 DEF Closed, CountNames, DoneNames, MessageNames
  <2> QED
    BY <1>1, <1>7, <2>1, NowThen
<1>10. \A s \in Elements(c) : s[1] \in LifeNames \ DataNames
  BY <1>8 DEF LifeNames, DataNames
<1>11. /\ "drain" \notin ReadNames \cup BootNames
                 \cup {"fill", "adopt", "put", "put_cas", "thread_done", "heap_done", "destructors"}
       /\ "drain" \notin EarlyNames
  BY DEF ReadNames, BootNames, EarlyNames
<1>12. t = Main => once \/ loaded
  BY <1>1, <1>11, NotEarly
<1> QED
  BY <1>1, <1>9, <1>10, <1>11, <1>12, ControlFacts, Quietly

LEMMA DoCollectForce == ASSUME IInv, NEW t \in Thread, CollectForce(t) PROVE IInv'
<1> DEFINE a == <<"drain", 1>>
<1>1. /\ Now(t, "collect") /\ StackInv /\ BootInv /\ Control
      /\ Then(t, <<>>) \/ (default[t] # HeapEmpty /\ Then(t, <<a>>))
  BY DEF CollectForce, IInv
<1>2. a \in Frame /\ a[1] = "drain"
  BY FrameLife
<1> HIDE DEF a
<1>3. May(t, <<a>>) /\ Elements(<<a>>) = {a}
  BY <1>2, MayOne DEF MainNames
<1>4. PICK c \in {<<>>, <<a>>} : Does(t, "collect", c) /\ (c = <<>> \/ default[t] # HeapEmpty)
  <2>1. Closed("collect", "drain")
    BY DEF Closed, CountNames, DoneNames, MessageNames
  <2>2. CASE Then(t, <<>>)
    BY <1>1, <2>2, MayNone, NowThen
  <2>3. CASE default[t] # HeapEmpty /\ Then(t, <<a>>)
    BY <1>1, <1>2, <1>3, <2>1, <2>3, NowThen
  <2> QED
    BY <1>1, <2>2, <2>3
<1>5. \A s \in Elements(c) : s[1] = "drain"
  BY <1>2, <1>3, <1>4, MayNone
<1>6. \A s \in Elements(c) : s[1] \in LifeNames \ DataNames
  BY <1>5 DEF LifeNames, DataNames
<1>7. "collect" \notin ReadNames \cup BootNames
                 \cup {"fill", "adopt", "put", "put_cas", "thread_done", "heap_done", "destructors"}
  BY DEF ReadNames, BootNames
<1>8. (t = Main /\ ~once /\ ~loaded) => \A s \in Elements(c) : s[1] \in EarlyNames \ {"heap_init"}
  <2>1. (t = Main /\ ~once /\ ~loaded) => default[t] = HeapEmpty
    BY <1>1 DEF BootInv
  <2> QED
    BY <1>4, <2>1, MayNone
<1> QED
  BY <1>1, <1>4, <1>6, <1>7, <1>8, ControlFacts, Quietly

LEMMA DoStatsPrint == ASSUME IInv, NEW t \in Thread, StatsPrint(t) PROVE IInv'
<1> DEFINE a == <<"malloc">>
           b == <<"print_merge">>
<1>1. /\ Now(t, "stats_print") /\ StackInv /\ BootInv /\ Control
      /\ Then(t, <<>>) \/ Then(t, <<a, b>>)
  BY DEF StatsPrint, IInv
<1>2. a \in Frame /\ b \in Frame /\ a[1] = "malloc" /\ b[1] = "print_merge"
  BY FrameLife
<1> HIDE DEF a, b
<1>3. May(t, <<a, b>>) /\ Elements(<<a, b>>) = {a, b}
  <2>1. Over(b, a) /\ {a[1], b[1]} \cap MainNames = {}
    BY <1>2 DEF Over, HeadNames, MainNames
  <2> QED
    BY <1>2, <2>1, MayTwo
<1>4. PICK c \in {<<>>, <<a, b>>} : Does(t, "stats_print", c)
  <2>1. Closed("stats_print", "malloc") /\ Closed("stats_print", "print_merge")
    BY DEF Closed, CountNames, DoneNames, MessageNames
  <2>2. CASE Then(t, <<>>)
    BY <1>1, <2>2, MayNone, NowThen
  <2>3. CASE Then(t, <<a, b>>)
    BY <1>1, <1>2, <1>3, <2>1, <2>3, NowThen
  <2> QED
    BY <1>1, <2>2, <2>3
<1>5. \A s \in Elements(c) : s[1] \in {"malloc", "print_merge"}
  BY <1>2, <1>3, <1>4, MayNone
<1>6. \A s \in Elements(c) : s[1] \in LifeNames \ DataNames
  BY <1>5 DEF LifeNames, DataNames
<1>7. /\ "stats_print" \notin ReadNames \cup BootNames
                 \cup {"fill", "adopt", "put", "put_cas", "thread_done", "heap_done", "destructors"}
      /\ "stats_print" \notin EarlyNames
  BY DEF ReadNames, BootNames, EarlyNames
<1>8. t = Main => once \/ loaded
  BY <1>1, <1>7, NotEarly
<1> QED
  BY <1>1, <1>4, <1>6, <1>7, <1>8, ControlFacts, Quietly

LEMMA DoPrintMerge == ASSUME IInv, NEW t \in Thread, PrintMerge(t) PROVE IInv'
<1> DEFINE a == <<"merge", default[t]>>
<1>1. /\ Now(t, "print_merge") /\ StackInv /\ BootInv /\ Control
      /\ Then(t, <<>>) \/ (default[t] # HeapEmpty /\ Then(t, <<a>>))
  BY DEF PrintMerge, IInv
<1>2. a[1] = "merge" /\ (default[t] # HeapEmpty => a \in Frame)
  <2>1. default[t] \in DefaultHeap
    BY TypeParts DEF IInv, LifeTypeOK
  <2>2. default[t] # HeapEmpty => default[t] \in Tld
    BY <2>1, Heaps
  <2> QED
    BY <2>2, FrameStats
<1> HIDE DEF a
<1>3. default[t] # HeapEmpty => May(t, <<a>>)
  BY <1>2, MayOne DEF MainNames
<1>4. Elements(<<a>>) = {a}
  BY DEF Elements
<1>5. PICK c \in {<<>>, <<a>>} : Does(t, "print_merge", c)
  <2>1. Closed("print_merge", "merge")
    BY DEF Closed, CountNames, DoneNames, MessageNames
  <2>2. CASE Then(t, <<>>)
    BY <1>1, <2>2, MayNone, NowThen
  <2>3. CASE default[t] # HeapEmpty /\ Then(t, <<a>>)
    BY <1>1, <1>2, <1>3, <1>4, <2>1, <2>3, NowThen
  <2> QED
    BY <1>1, <2>2, <2>3
<1>6. \A s \in Elements(c) : s[1] = "merge"
  BY <1>2, <1>4, <1>5, MayNone
<1>7. \A s \in Elements(c) : s[1] \in LifeNames \ DataNames
  BY <1>6 DEF LifeNames, CountNames, DataNames
<1>8. /\ "print_merge" \notin ReadNames \cup BootNames
                 \cup {"fill", "adopt", "put", "put_cas", "thread_done", "heap_done", "destructors"}
      /\ "print_merge" \notin EarlyNames
  BY DEF ReadNames, BootNames, EarlyNames
<1>9. t = Main => once \/ loaded
  BY <1>1, <1>8, NotEarly
<1> QED
  BY <1>1, <1>5, <1>7, <1>8, <1>9, ControlFacts, Quietly

LEMMA DoProcessDone == ASSUME IInv, NEW t \in Thread, ProcessDone(t) PROVE IInv'
<1> DEFINE a == <<"collect">>
           b == <<"get", "show_stats">>
           d == <<"stats_print">>
           e == <<"unload">>
<1>1. /\ Now(t, "process_done") /\ StackInv /\ BootInv /\ exited' = (exited \/ once)
      /\ UNCHANGED <<once, tlsDone, key, mainId, threads, owner, cache, mapped, memid, life, loaded,
                     pages, drift, default, keyValue, messageVars, program, total, local>>
      /\ Then(t, <<>>) \/ Then(t, <<a, b, d, e>>)
  BY DEF ProcessDone, tdVars, lifeVars, statVars, IInv
<1>2. /\ a \in Frame /\ b \in Frame /\ d \in Frame /\ e \in Frame
      /\ a[1] = "collect" /\ b[1] = "get" /\ d[1] = "stats_print" /\ e[1] = "unload"
  BY FrameLife, FrameText, ProcessAssumption
<1>3. Ready
  <2>1. Head(todo[t]) \in Ahead(t) /\ Head(todo[t])[1] = "process_done"
    BY <1>1, NowTyped
  <2>2. OptionStep(Head(todo[t]))
    BY <2>1 DEF IInv, OptionsInv
  <2> QED
    BY <2>1, <2>2 DEF OptionStep
<1> HIDE DEF a, b, d, e
<1>4. May(t, <<a, b, d, e>>) /\ Elements(<<a, b, d, e>>) = {a, b, d, e}
  <2>1. Over(b, a) /\ Over(d, a) /\ Over(e, a) /\ Over(d, b) /\ Over(e, b) /\ Over(e, d)
    BY <1>2 DEF Over, HeadNames
  <2>2. {a[1], b[1], d[1], e[1]} \cap MainNames = {}
    BY <1>2 DEF MainNames
  <2> QED
    BY <1>2, <2>1, <2>2, MayFour
<1>5. PICK c \in {<<>>, <<a, b, d, e>>} : Does(t, "process_done", c)
  <2>1. \A s \in {a, b, d, e} : Closed("process_done", s[1])
    BY <1>2 DEF Closed, CountNames, DoneNames, MessageNames
  <2>2. CASE Then(t, <<>>)
    BY <1>1, <2>2, MayNone, NowThen
  <2>3. CASE Then(t, <<a, b, d, e>>)
    BY <1>1, <1>4, <2>1, <2>3, NowThen
  <2> QED
    BY <1>1, <2>2, <2>3
<1>6. \A s \in Elements(c) : s[1] \in {"collect", "get", "stats_print", "unload"}
  BY <1>2, <1>4, <1>5, MayNone
<1>7. \A s \in Elements(c) : s[1] \in LifeNames \ DataNames \/ (s[1] \in {"process_done", "unload"} /\ Ready)
  BY <1>3, <1>6 DEF LifeNames, DataNames
<1>8. /\ "process_done" \notin ReadNames \cup BootNames
                 \cup {"fill", "adopt", "put", "put_cas", "thread_done", "heap_done", "destructors"}
      /\ "process_done" \notin EarlyNames
  BY DEF ReadNames, BootNames, EarlyNames
<1>9. t = Main => once \/ loaded
  BY <1>1, <1>8, NotEarly
<1>10. StatsTypeOK' /\ LifeTypeOK'
  <2>1. StatsTypeOK /\ LifeTypeOK
    BY TypeParts DEF IInv
  <2>2. exited' \in BOOLEAN
    BY <1>1, <2>1 DEF LifeTypeOK
  <2> QED
    BY <1>1, <2>1, <2>2 DEF StatsTypeOK, LifeTypeOK
<1>11. StartSame /\ DataSame
  BY <1>1 DEF StartSame, DataSame
<1> QED
  BY <1>1, <1>5, <1>7, <1>8, <1>9, <1>10, <1>11, Quietly

(***************************************************************************)
(* The start of the process.                                               *)
(***************************************************************************)
\* What only the main thread does, it does once the start has begun.
LEMMA MainOnly ==
    ASSUME StackInv, BootInv, NEW t \in Thread, NEW n \in MainNames, Now(t, n)
    PROVE  t = Main /\ (once \/ loaded) /\ Has(Main, n)
<1>1. Head(todo[t]) \in Ahead(t) /\ Head(todo[t])[1] = n
  BY NowTyped
<1>2. t = Main
  BY <1>1 DEF StackInv
<1>3. n \notin EarlyNames
  BY DEF MainNames, EarlyNames
<1> QED
  BY <1>1, <1>2, <1>3, NotEarly DEF Has

LEMMA DoInitHeapMain == ASSUME IInv, NEW t \in Thread, InitHeapMain(t) PROVE IInv'
<1> DEFINE a == <<"message", "warning">>
<1>1. /\ Now(t, "heap_main_init") /\ StackInv /\ BootInv /\ DataInv
      /\ mainId' = IF mainId = NoThread THEN t ELSE mainId
      /\ UNCHANGED <<once, tlsDone, key, exited, threads, owner, cache, mapped, memid, life, loaded,
                     pages, drift, default, keyValue, messageVars, program, total, local>>
      /\ Then(t, <<>>) \/ Then(t, <<a>>)
  BY DEF InitHeapMain, HeapMainInit, tdVars, statVars, IInv
<1>2. "heap_main_init" \in MainNames
  BY DEF MainNames
<1>3. t = Main /\ (once \/ loaded) /\ mainId' = Main
  BY <1>1, <1>2, MainOnly DEF BootInv
<1>4. a \in Frame /\ a[1] = "message"
  BY FrameText DEF Kind
<1> HIDE DEF a
<1>5. May(t, <<a>>) /\ Elements(<<a>>) = {a}
  BY <1>4, MayOne DEF MainNames
<1>6. PICK c \in {<<>>, <<a>>} : Does(t, "heap_main_init", c)
  <2>1. Closed("heap_main_init", "message")
    BY DEF Closed, CountNames, DoneNames, MessageNames
  <2>2. CASE Then(t, <<>>)
    BY <1>1, <2>2, MayNone, NowThen
  <2>3. CASE Then(t, <<a>>)
    BY <1>1, <1>4, <1>5, <2>1, <2>3, NowThen
  <2> QED
    BY <1>1, <2>2, <2>3
<1>7. \A s \in Elements(c) : s[1] = "message"
  BY <1>4, <1>5, <1>6, MayNone
<1>8. Stepped(t, c) /\ NotAt(t, ReadNames) /\ ~Idle(t)
      /\ NotAt(t, {"fill", "adopt", "put", "put_cas", "thread_done", "heap_done", "destructors"})
  BY <1>6 DEF Does, NotAt, ReadNames
<1>9. StatsTypeOK' /\ LifeTypeOK'
  <2>1. StatsTypeOK /\ LifeTypeOK
    BY TypeParts DEF IInv
  <2> QED
    BY <1>1, <1>3, <2>1, Heaps DEF StatsTypeOK, LifeTypeOK
<1>10. Carried
  <2>1. \A s \in Elements(c) : s[1] \in LifeNames
    BY <1>7 DEF LifeNames
  <2> QED
    BY <1>1, <1>8, <2>1, Carry
<1>11. BootInv'
  <2>1. /\ \A m : m # "heap_main_init" /\ Has(Main, m) => Has(Main, m)'
        /\ \A u \in Thread \ {Main} : Idle(u)' <=> Idle(u)
    BY <1>3, <1>6, DoesAhead DEF Does, Stepped, Idle
  <2>2. \A u \in Thread \ {Main} : life'[u] # "unborn" \/ ~Idle(u)' => Started'
    BY <1>1, <1>3, <2>1 DEF BootInv, Started
  <2> QED
    BY <1>1, <1>3, <2>1, <2>2 DEF BootInv
<1>12. DataInv'
  <2>1. Avoids(c, DataNames)
    BY <1>7 DEF Avoids, DataNames
  <2> QED
    BY <1>1, <1>8, <2>1, DataKept
<1> QED
  BY <1>9, <1>10, <1>11, <1>12, TogetherHolds DEF Together

LEMMA DoLoadingDone == ASSUME IInv, NEW t \in Thread, LoadingDone(t) PROVE IInv'
<1>1. /\ Now(t, "loading") /\ StackInv /\ BootInv /\ DataInv /\ Then(t, <<>>)
      /\ OutputInv /\ OptionsInv /\ ChoiceInv /\ preloading' = FALSE
      /\ UNCHANGED <<once, tlsDone, key, mainId, exited, threads, owner, cache, mapped, memid, life,
                     loaded, pages, drift, default, keyValue, program, total, local>>
      /\ UNCHANGED <<env, value, init, given, limit, said, outDefault, outLen, outBuf>>
  BY DEF LoadingDone, processVars, tdVars, lifeVars, statVars, optionVars, outVars, IInv
<1>2. Does(t, "loading", <<>>) /\ Elements(<<>>) = {}
  BY <1>1, MayNone, NowThen
<1>3. /\ Stepped(t, <<>>) /\ StackInv' /\ ~Idle(t)
      /\ NotAt(t, ReadNames \ {"loading"}) /\ NotAt(t, BootNames)
      /\ NotAt(t, {"fill", "adopt", "put", "put_cas", "thread_done", "heap_done", "destructors"})
  BY <1>2 DEF Does, Stepped, NotAt, ReadNames, BootNames
<1>4. StatsTypeOK' /\ LifeTypeOK' /\ MessagesTypeOK'
  <2>1. StatsTypeOK /\ LifeTypeOK /\ MessagesTypeOK
    BY TypeParts DEF IInv
  <2> QED
    BY <1>1, <2>1 DEF StatsTypeOK, LifeTypeOK, MessagesTypeOK
<1>5. OutputInv'
  BY <1>1, <1>2, <1>3, OutputKept DEF Avoids
<1>6. OptionsInv'
  BY <1>1, <1>2, <1>3, OptionsCarried, Heaps
<1>7. BootInv'
  BY <1>1, <1>2, <1>3, BootKept, Heaps
<1>8. DataInv'
  BY <1>1, <1>2, <1>3, DataKept DEF Avoids
<1>9. ChoiceInv'
  BY <1>1 DEF ChoiceInv
<1> QED
  BY <1>3, <1>4, <1>5, <1>6, <1>7, <1>8, <1>9, TogetherHolds DEF Together, Carried

LEMMA DoUnload == ASSUME IInv, NEW t \in Thread, Unload(t) PROVE IInv'
<1>1. /\ Now(t, "unload") /\ StackInv /\ BootInv /\ DataInv /\ Then(t, <<>>)
      /\ OutputInv /\ OptionsInv /\ ChoiceInv /\ preloading' = TRUE
      /\ UNCHANGED <<once, tlsDone, key, mainId, exited, threads, owner, cache, mapped, memid, life,
                     loaded, pages, drift, default, keyValue, program, total, local>>
      /\ UNCHANGED <<env, value, init, given, limit, said, outDefault, outLen, outBuf>>
  BY DEF Unload, processVars, tdVars, lifeVars, statVars, optionVars, outVars, IInv
<1>2. Does(t, "unload", <<>>) /\ Elements(<<>>) = {}
  BY <1>1, MayNone, NowThen
<1>3. /\ Stepped(t, <<>>) /\ StackInv' /\ ~Idle(t)
      /\ NotAt(t, ReadNames \ {"loading"}) /\ NotAt(t, BootNames)
      /\ NotAt(t, {"fill", "adopt", "put", "put_cas", "thread_done", "heap_done", "destructors"})
  BY <1>2 DEF Does, Stepped, NotAt, ReadNames, BootNames
<1>4. StatsTypeOK' /\ LifeTypeOK' /\ MessagesTypeOK'
  <2>1. StatsTypeOK /\ LifeTypeOK /\ MessagesTypeOK
    BY TypeParts DEF IInv
  <2> QED
    BY <1>1, <2>1 DEF StatsTypeOK, LifeTypeOK, MessagesTypeOK
<1>5. OutputInv'
  BY <1>1, <1>2, <1>3, OutputKept DEF Avoids
<1>6. Ready
  <2>1. Head(todo[t]) \in Ahead(t) /\ Head(todo[t])[1] = "unload"
    BY <1>1, NowTyped
  <2>2. OptionStep(Head(todo[t]))
    BY <1>1, <2>1 DEF OptionsInv
  <2> QED
    BY <2>1, <2>2 DEF OptionStep
<1>7. OptionsInv'
  BY <1>1, <1>2, <1>3, <1>6, OptionsCarried, Heaps
<1>8. BootInv'
  BY <1>1, <1>2, <1>3, BootKept, Heaps
<1>9. DataInv'
  BY <1>1, <1>2, <1>3, DataKept DEF Avoids
<1>10. ChoiceInv'
  BY <1>1 DEF ChoiceInv
<1> QED
  BY <1>3, <1>4, <1>5, <1>7, <1>8, <1>9, <1>10, TogetherHolds DEF Together, Carried

LEMMA DoProcessInit == ASSUME IInv, NEW t \in Thread, ProcessInit(t) PROVE IInv'
<1> DEFINE a == <<"auto_done">>
           b == <<"heap_main_init">>
           d == <<"thread_init">>
           e == <<"stats_reset", HeapMain>>
<1>1. /\ Now(t, "process_init") /\ StackInv /\ BootInv /\ DataInv /\ once' = TRUE
      /\ UNCHANGED <<tlsDone, key, mainId, exited, threads, owner, cache, mapped, memid, life, loaded,
                     pages, drift, default, keyValue, messageVars, program, total, local>>
      /\ (once /\ Then(t, <<>>)) \/ (~once /\ Then(t, <<a, b, d, e>>))
  BY DEF ProcessInit, tdVars, lifeVars, statVars, IInv
<1>2. /\ a \in Frame /\ b \in Frame /\ d \in Frame /\ e \in Frame /\ a[1] = "auto_done"
      /\ b[1] = "heap_main_init" /\ d[1] = "thread_init" /\ e[1] = "stats_reset"
  BY FrameLife, FrameStats, Heaps
<1>3. ~once => t = Main
  <2>1. ~Idle(t)
    BY <1>1, NowTyped
  <2> QED
    BY <1>1, <2>1, OthersStarted DEF Started
<1> HIDE DEF a, b, d, e
<1>4. ~once => May(t, <<a, b, d, e>>)
  <2>1. Over(b, a) /\ Over(d, a) /\ Over(e, a) /\ Over(d, b) /\ Over(e, b) /\ Over(e, d)
    BY <1>2 DEF Over, HeadNames
  <2>2. ~once => ({a[1], b[1], d[1], e[1]} \cap MainNames # {} => t = Main)
    BY <1>3
  <2> QED
    BY <1>2, <2>1, <2>2, MayFour
<1>5. Elements(<<a, b, d, e>>) = {a, b, d, e}
  BY DEF Elements
<1>6. PICK c \in {<<>>, <<a, b, d, e>>} :
         Does(t, "process_init", c) /\ IF once THEN c = <<>> ELSE c = <<a, b, d, e>>
  <2>1. \A s \in {a, b, d, e} : Closed("process_init", s[1])
    BY <1>2 DEF Closed, CountNames, DoneNames, MessageNames
  <2>2. CASE once /\ Then(t, <<>>)
    BY <1>1, <2>2, MayNone, NowThen
  <2>3. CASE ~once /\ Then(t, <<a, b, d, e>>)
    BY <1>1, <1>4, <1>5, <2>1, <2>3, NowThen
  <2> QED
    BY <1>1, <2>2, <2>3
<1>7. \A s \in Elements(c) : s[1] \in {"auto_done", "heap_main_init", "thread_init", "stats_reset"}
  BY <1>2, <1>5, <1>6, MayNone
<1>8. Stepped(t, c) /\ NotAt(t, ReadNames) /\ ~Idle(t)
      /\ NotAt(t, {"fill", "adopt", "put", "put_cas", "thread_done", "heap_done", "destructors"})
  BY <1>6 DEF Does, NotAt, ReadNames
<1>9. StatsTypeOK' /\ LifeTypeOK'
  <2>1. StatsTypeOK /\ LifeTypeOK
    BY TypeParts DEF IInv
  <2> QED
    BY <1>1, <2>1 DEF StatsTypeOK, LifeTypeOK
<1>10. Carried
  <2>1. \A s \in Elements(c) : s[1] \in LifeNames
    BY <1>7 DEF LifeNames
  <2> QED
    BY <1>1, <1>8, <2>1, Carry
<1>11. BootInv'
  <2>1. \A u \in Thread : \A m : m # "process_init" /\ Has(u, m) => Has(u, m)'
    BY <1>6, DoesAhead
  <2>2. \A u \in Thread \ {Main} : life'[u] # "unborn" \/ ~Idle(u)' => Started'
    <3> TAKE u \in Thread \ {Main}
    <3>1. ~Idle(u)' => ~Idle(u)
      BY <1>8 DEF Stepped, Idle
    <3> QED
      BY <1>1, <3>1 DEF BootInv, Started
  <2>3. ~once => Has(Main, "auto_done")' /\ Has(Main, "heap_main_init")'
    <3>1. ~once => a \in Ahead(Main)' /\ b \in Ahead(Main)'
      BY <1>3, <1>5, <1>6, DoesAhead
    <3> QED
      BY <1>2, <3>1 DEF Has
  <2> QED
    BY <1>1, <2>1, <2>2, <2>3, Heaps DEF BootInv
<1>12. DataInv'
  <2>1. Avoids(c, DataNames)
    BY <1>7 DEF Avoids, DataNames
  <2> QED
    BY <1>1, <1>8, <2>1, DataKept
<1> QED
  BY <1>9, <1>10, <1>11, <1>12, TogetherHolds DEF Together

LEMMA DoThreadInit == ASSUME IInv, NEW t \in Thread, ThreadInit(t) PROVE IInv'
<1> DEFINE a == <<"process_init">>
           b == <<"heap_init">>
           c == <<a, b>>
<1>1. /\ Now(t, "thread_init") /\ StackInv /\ BootInv /\ DataInv /\ Control /\ Then(t, c)
  BY DEF ThreadInit, IInv
<1>2. a \in Frame /\ b \in Frame /\ a[1] = "process_init" /\ b[1] = "heap_init"
  BY FrameLife
<1>3. c # <<>> /\ c[1] = a
  OBVIOUS
<1> HIDE DEF a, b
<1>4. May(t, c) /\ Elements(c) = {a, b}
  <2>1. Over(b, a) /\ {a[1], b[1]} \cap MainNames = {}
    BY <1>2 DEF Over, HeadNames, MainNames
  <2> QED
    BY <1>2, <2>1, MayTwo
<1> HIDE DEF c
<1>5. Does(t, "thread_init", c)
  <2>1. \A s \in {a, b} : Closed("thread_init", s[1])
    BY <1>2 DEF Closed, CountNames, DoneNames, MessageNames
  <2> QED
    BY <1>1, <1>4, <2>1, NowThen
<1>6. /\ StartSame /\ DataSame /\ UNCHANGED <<messageVars, program>> /\ StatsTypeOK' /\ LifeTypeOK'
  BY <1>1, ControlFacts
<1>7. Stepped(t, c) /\ NotAt(t, ReadNames) /\ NotAt(t, BootNames) /\ ~Idle(t)
      /\ NotAt(t, {"fill", "adopt", "put", "put_cas", "thread_done", "heap_done", "destructors"})
  BY <1>5 DEF Does, NotAt, ReadNames, BootNames
<1>8. Carried
  <2>1. \A s \in Elements(c) : s[1] \in LifeNames
    BY <1>2, <1>4 DEF LifeNames
  <2> QED
    BY <1>6, <1>7, <2>1, Carry DEF StartSame
<1>9. DataInv'
  <2>1. Avoids(c, DataNames)
    BY <1>2, <1>4 DEF Avoids, DataNames
  <2> QED
    BY <1>1, <1>6, <1>7, <2>1, DataKept DEF DataSame
<1>10. BootInv'
  <2>1. CASE t = Main /\ ~once /\ ~loaded
    <3>1. Now(Main, "process_init")'
      BY <1>2, <1>3, <1>7, <2>1 DEF Stepped, Now
    <3>2. \A s \in Ahead(Main)' : s[1] \in EarlyNames
      <4>1. \A s \in Ahead(t)' : s \in Elements(c) \/ s \in Ahead(t)
        BY <1>7, SteppedAhead
      <4> QED
        BY <1>1, <1>2, <1>4, <2>1, <4>1 DEF BootInv, EarlyNames
    <3>3. \A u \in Thread \ {Main} : life'[u] # "unborn" \/ ~Idle(u)' => Started'
      <4> TAKE u \in Thread \ {Main}
      <4>1. Idle(u)' <=> Idle(u)
        BY <1>7, <2>1 DEF Stepped, Idle
      <4> QED
        BY <1>1, <1>6, <4>1 DEF BootInv, Started, StartSame
    <3>4. \A m : m # "thread_init" /\ Has(Main, m) => Has(Main, m)'
      BY <1>5, DoesAhead, Heaps
    <3> QED
      BY <1>1, <1>6, <2>1, <3>1, <3>2, <3>3, <3>4 DEF BootInv, StartSame, DataSame
  <2>2. CASE ~(t = Main /\ ~once /\ ~loaded)
    BY <1>1, <1>6, <1>7, <2>2, BootKept, Heaps DEF StartSame, DataSame
  <2> QED
    BY <2>1, <2>2
<1> QED
  BY <1>6, <1>8, <1>9, <1>10, TogetherHolds DEF Together

LEMMA DoHeapInit == ASSUME IInv, NEW t \in Thread, HeapInit(t) PROVE IInv'
<1> DEFINE a == <<"heap_main_init">>
           b == <<"adopt_main">>
           d == <<"stat", "threads", 1>>
           e == <<"count", 1>>
           g == <<"cached", 1>>
<1>1. /\ Now(t, "heap_init") /\ StackInv /\ BootInv /\ DataInv /\ Control
      /\ \/ Then(t, <<>>)
         \/ IsMainThread(t) /\ Then(t, <<a, b>> \o <<d, e>>)
         \/ default[t] = HeapEmpty /\ ~IsMainThread(t) /\ Then(t, <<g>>)
  BY DEF HeapInit, Counted, IInv
<1>2. ~Idle(t) /\ Head(todo[t]) \in Ahead(t) /\ Head(todo[t])[1] = "heap_init"
  BY <1>1, NowTyped
<1>3. /\ a \in Frame /\ b \in Frame /\ d \in Frame /\ e \in Frame /\ g \in Frame
      /\ a[1] = "heap_main_init" /\ b[1] = "adopt_main" /\ d[1] = "stat" /\ e[1] = "count" /\ g[1] = "cached"
  BY FrameLife, FrameStats DEF Stat
<1>4. IsMainThread(t) <=> t = Main
  BY <1>1, <1>2, MainThread
<1> HIDE DEF a, b, d, e, g
<1>5. t = Main => once \/ loaded
  <2>1. SUFFICES ASSUME t = Main, ~once, ~loaded PROVE FALSE
    OBVIOUS
  <2>2. Now(Main, "process_init")
    BY <1>1, <1>2, <2>1 DEF BootInv, Has
  <2> QED
    BY <1>2, <2>1, <2>2 DEF Now
<1>6. t = Main => May(t, <<a, b>> \o <<d, e>>)
  <2> SUFFICES ASSUME t = Main
               PROVE  May(t, <<a, b>> \o <<d, e>>)
    OBVIOUS
  <2> DEFINE x == <<a, b>>
             y == <<d, e>>
  <2>1. Over(b, a) /\ Over(e, d) /\ \A p \in {a, b}, q \in {d, e} : Over(q, p)
    BY <1>3 DEF Over, HeadNames
  <2>2. May(t, x) /\ Elements(x) = {a, b}
    BY <1>3, <2>1, MayTwo
  <2>3. May(t, y) /\ Elements(y) = {d, e}
    BY <1>3, <2>1, MayTwo
  <2> HIDE DEF x, y
  <2>4. May(t, x \o y)
    BY <2>1, <2>2, <2>3, MayJoin
  <2> QED
    BY <2>4 DEF x, y
<1>7. Elements(<<a, b>> \o <<d, e>>) = {a, b, d, e}
  BY DEF Elements
<1>8. May(t, <<g>>) /\ Elements(<<g>>) = {g}
  BY <1>3, MayOne DEF MainNames
<1>9. PICK c : Does(t, "heap_init", c) /\ Elements(c) \subseteq {a, b, d, e, g}
               /\ (g \in Elements(c) => default[t] = HeapEmpty /\ t # Main)
  <2>0. \A s \in {a, b, d, e, g} : Closed("heap_init", s[1])
    BY <1>3 DEF Closed, CountNames, DoneNames, MessageNames
  <2>1. CASE Then(t, <<>>)
    <3>1. Does(t, "heap_init", <<>>)
      BY <1>1, <2>1, MayNone, NowThen
    <3> QED
      BY <3>1, MayNone
  <2>2. CASE IsMainThread(t) /\ Then(t, <<a, b>> \o <<d, e>>)
    <3> DEFINE c == <<a, b>> \o <<d, e>>
    <3>1. May(t, c) /\ Elements(c) = {a, b, d, e} /\ Then(t, c) /\ g \notin {a, b, d, e}
      BY <1>3, <1>4, <1>6, <1>7, <2>2
    <3> HIDE DEF c
    <3>2. Does(t, "heap_init", c)
      BY <1>1, <2>0, <3>1, NowThen
    <3> QED
      BY <3>1, <3>2
  <2>3. CASE default[t] = HeapEmpty /\ ~IsMainThread(t) /\ Then(t, <<g>>)
    <3>1. Does(t, "heap_init", <<g>>)
      BY <1>1, <1>8, <2>0, <2>3, NowThen
    <3> QED
      BY <1>4, <1>8, <2>3, <3>1
  <2> QED
    BY <1>1, <2>1, <2>2, <2>3
<1>10. \A s \in Elements(c) : s[1] \in {"heap_main_init", "adopt_main", "stat", "count", "cached"}
  BY <1>3, <1>9
<1>11. /\ StartSame /\ DataSame /\ UNCHANGED <<messageVars, program>> /\ StatsTypeOK' /\ LifeTypeOK'
  BY <1>1, ControlFacts
<1>12. Stepped(t, c) /\ NotAt(t, ReadNames) /\ NotAt(t, BootNames)
      /\ NotAt(t, {"fill", "adopt", "put", "put_cas", "destructors"})
  BY <1>9 DEF Does, NotAt, ReadNames, BootNames
<1>13. Carried
  <2>1. \A s \in Elements(c) : s[1] \in LifeNames
    BY <1>10 DEF LifeNames, CountNames, DataNames
  <2> QED
    BY <1>11, <1>12, <2>1, Carry DEF StartSame
<1>14. BootInv'
  BY <1>1, <1>2, <1>5, <1>11, <1>12, BootKept, Heaps DEF StartSame, DataSame
<1>15. DataInv'
  <2>1. Avoids(c, {"fill", "adopt", "put", "put_cas"})
    BY <1>10 DEF Avoids
  <2>2. \A s \in Elements(c) : DataStep(t, s)'
    <3> TAKE s \in Elements(c)
    <3>1. CASE s = g
      <4>1. default'[t] = HeapEmpty /\ t # Main
        BY <1>9, <1>11, <3>1 DEF DataSame
      <4> QED
        BY <1>3, <3>1, <4>1 DEF DataStep
    <3>2. CASE s # g
      BY <1>3, <1>9, <3>2 DEF DataStep, OwnNames
    <3> QED
      BY <3>1, <3>2
  <2>3. Ending(t) => Ending(t)'
    BY <1>9, DoesAhead DEF Ending
  <2> QED
    BY <1>1, <1>2, <1>11, <1>12, <2>1, <2>2, <2>3, DataMoved DEF DataSame
<1> QED
  BY <1>11, <1>13, <1>14, <1>15, TogetherHolds DEF Together

LEMMA DoSetupAutoDone == ASSUME IInv, NEW t \in Thread, SetupAutoDone(t) PROVE IInv'
<1> DEFINE a == <<"thread_init">>
           b == <<"key">>
<1>1. /\ Now(t, "auto_done") /\ StackInv /\ BootInv /\ DataInv /\ tlsDone' = TRUE
      /\ UNCHANGED <<once, key, mainId, exited, threads, owner, cache, mapped, memid, life, loaded,
                     pages, drift, default, keyValue, messageVars, program, total, local>>
      /\ \/ tlsDone /\ Then(t, <<>>)
         \/ Then(t, <<>> \o <<b>>)
         \/ Then(t, <<a>> \o <<b>>)
  BY DEF SetupAutoDone, tdVars, lifeVars, statVars, IInv
<1>2. "auto_done" \in MainNames
  BY DEF MainNames
<1>3. t = Main /\ (once \/ loaded)
  BY <1>1, <1>2, MainOnly
<1>4. a \in Frame /\ b \in Frame /\ a[1] = "thread_init" /\ b[1] = "key"
  BY FrameLife
<1> HIDE DEF a, b
<1>5. May(t, <<>> \o <<b>>) /\ May(t, <<a>> \o <<b>>)
  <2> DEFINE x == <<a>>
             y == <<b>>
             z == <<>>
  <2>1. May(t, x) /\ Elements(x) = {a} /\ May(t, z) /\ Elements(z) = {}
    BY <1>3, <1>4, MayNone, MayOne
  <2>2. May(t, y) /\ Elements(y) = {b}
    BY <1>3, <1>4, MayOne
  <2>3. Over(b, a)
    BY <1>4 DEF Over, HeadNames
  <2> HIDE DEF x, y, z
  <2>4. May(t, x \o y) /\ May(t, z \o y)
    BY <2>1, <2>2, <2>3, MayJoin
  <2> QED
    BY <2>4 DEF x, y, z
<1>6. Elements(<<>> \o <<b>>) = {b} /\ Elements(<<a>> \o <<b>>) = {a, b}
  BY DEF Elements
<1>7. PICK c : Does(t, "auto_done", c) /\ Elements(c) \subseteq {a, b} /\ (tlsDone \/ b \in Elements(c))
  <2>0. \A s \in {a, b} : Closed("auto_done", s[1])
    BY <1>4 DEF Closed, CountNames, DoneNames, MessageNames
  <2>1. CASE tlsDone /\ Then(t, <<>>)
    <3>1. Does(t, "auto_done", <<>>)
      BY <1>1, <2>1, MayNone, NowThen
    <3> QED
      BY <2>1, <3>1, MayNone
  <2>2. ASSUME NEW c \in {<<>> \o <<b>>, <<a>> \o <<b>>}, Then(t, c)
        PROVE  Does(t, "auto_done", c) /\ Elements(c) \subseteq {a, b} /\ b \in Elements(c)
    <3>1. May(t, c) /\ Elements(c) \subseteq {a, b} /\ b \in Elements(c)
      BY <1>5, <1>6
    <3> QED
      BY <1>1, <2>0, <2>2, <3>1, NowThen
  <2> QED
    BY <1>1, <2>1, <2>2
<1>8. \A s \in Elements(c) : s[1] \in {"thread_init", "key"}
  BY <1>4, <1>7
<1>9. Stepped(t, c) /\ NotAt(t, ReadNames) /\ ~Idle(t)
      /\ NotAt(t, {"fill", "adopt", "put", "put_cas", "thread_done", "heap_done", "destructors"})
  BY <1>7 DEF Does, NotAt, ReadNames
<1>10. StatsTypeOK' /\ LifeTypeOK'
  <2>1. StatsTypeOK /\ LifeTypeOK
    BY TypeParts DEF IInv
  <2> QED
    BY <1>1, <2>1 DEF StatsTypeOK, LifeTypeOK
<1>11. Carried
  <2>1. \A s \in Elements(c) : s[1] \in LifeNames
    BY <1>8 DEF LifeNames
  <2> QED
    BY <1>1, <1>9, <2>1, Carry
<1>12. BootInv'
  <2>1. \A m : m # "auto_done" /\ Has(Main, m) => Has(Main, m)'
    BY <1>3, <1>7, DoesAhead
  <2>2. \A u \in Thread \ {Main} : life'[u] # "unborn" \/ ~Idle(u)' => Started'
    <3> TAKE u \in Thread \ {Main}
    <3>1. Idle(u)' <=> Idle(u)
      BY <1>3, <1>9 DEF Stepped, Idle
    <3> QED
      BY <1>1, <3>1 DEF BootInv, Started
  <2>3. key \/ Has(Main, "key")'
    <3>1. tlsDone => key \/ Has(Main, "key")'
      BY <1>1, <2>1 DEF BootInv
    <3>2. b \in Elements(c) => b \in Ahead(Main)'
      BY <1>3, <1>7, DoesAhead
    <3>3. b \in Ahead(Main)' => Has(Main, "key")'
      BY <1>4 DEF Has
    <3> QED
      BY <1>7, <3>1, <3>2, <3>3
  <2> QED
    BY <1>1, <1>3, <2>1, <2>2, <2>3 DEF BootInv
<1>13. DataInv'
  <2>1. Avoids(c, DataNames)
    BY <1>8 DEF Avoids, DataNames
  <2> QED
    BY <1>1, <1>9, <2>1, DataKept
<1> QED
  BY <1>10, <1>11, <1>12, <1>13, TogetherHolds DEF Together

LEMMA DoProcessLoad == ASSUME IInv, NEW t \in Thread, ProcessLoad(t) PROVE IInv'
<1> DEFINE a == <<"heap_main_init">>
           b == <<"loading">>
           d == <<"options_init">>
           e == <<"auto_done">>
           g == <<"process_init">>
           c == <<a, b, d, e, g>>
<1>1. /\ StackInv /\ BootInv /\ DataInv /\ OutputInv /\ OptionsInv /\ ChoiceInv /\ t = Main
      /\ ~loaded /\ loaded' = TRUE /\ life[t] = "runs" /\ Call(t, c) /\ Idle(t)
      /\ UNCHANGED <<once, tlsDone, key, mainId, exited, threads, owner, cache, mapped, memid, life,
                     pages, drift, default, keyValue, messageVars, program, total, local>>
  BY DEF ProcessLoad, Call, processVars, tdVars, statVars, IInv
<1>2. UNCHANGED <<env, preloading, value, init, given, outLen, outBuf>>
  BY <1>1 DEF messageVars
<1>3. /\ a \in Frame /\ b \in Frame /\ d \in Frame /\ e \in Frame /\ g \in Frame
      /\ a[1] = "heap_main_init" /\ b[1] = "loading" /\ d[1] = "options_init" /\ e[1] = "auto_done"
      /\ g[1] = "process_init"
  BY FrameLife
<1> HIDE DEF a, b, d, e, g
<1>4. May(t, c) /\ Elements(c) = {a, b, d, e, g}
  <2>1. Over(b, a) /\ Over(d, a) /\ Over(e, a) /\ Over(g, a) /\ Over(d, b) /\ Over(e, b) /\ Over(g, b)
        /\ Over(e, d) /\ Over(g, d) /\ Over(g, e)
    BY <1>3 DEF Over, HeadNames
  <2> QED
    BY <1>1, <1>3, <2>1, MayFive
<1> HIDE DEF c
<1>5. Stepped(t, c)
  BY <1>1, <1>4, CallStepped
<1>6. /\ StackInv' /\ Ahead(t) = {} /\ Ahead(t)' = {a, b, d, e, g}
      /\ \A u \in Thread \ {t} : Ahead(u)' = Ahead(u) /\ (Idle(u)' <=> Idle(u))
  <2>1. StackInv' /\ Ahead(t) = {} /\ Ahead(t)' = {a, b, d, e, g}
    BY <1>1, <1>4, <1>5 DEF Stepped
  <2>2. \A u \in Thread \ {t} : Ahead(u)' = Ahead(u)
    BY <1>5, SteppedAhead
  <2>3. \A u \in Thread \ {t} : Idle(u)' <=> Idle(u)
    BY <1>5 DEF Stepped, Idle
  <2> QED
    BY <2>1, <2>2, <2>3
<1>7. StatsTypeOK' /\ LifeTypeOK' /\ MessagesTypeOK' /\ ChoiceInv'
  <2>1. StatsTypeOK /\ LifeTypeOK /\ MessagesTypeOK
    BY TypeParts DEF IInv
  <2> QED
    BY <1>1, <2>1 DEF StatsTypeOK, LifeTypeOK, MessagesTypeOK, ChoiceInv, messageVars
<1>8. OutputInv'
  <2>1. Avoids(c, {"copy", "terminate", "deliver"})
    BY <1>3, <1>4 DEF Avoids
  <2> QED
    BY <1>1, <1>2, <1>5, <2>1, OutputKept
<1>9. OptionsInv'
  <2>1. ~Ready
    BY <1>1 DEF Ready
  <2>2. \A s : OptionStep(s) => OptionStep(s)'
    BY <1>2, <2>1 DEF OptionStep, EnvOf
  <2>3. \A s \in {a, b, d, e, g} : OptionStep(s)'
    BY <1>3 DEF OptionStep
  <2>4. \A u \in Thread : \A s \in Ahead(u)' : OptionStep(s)'
    BY <1>1, <1>6, <2>2, <2>3 DEF OptionsInv
  <2>5. \A o \in Option : ValueInv(o)'
    <3> TAKE o \in Option
    <3>1. ValueInv(o)
      BY <1>1 DEF OptionsInv
    <3>2. \A u \in Thread : Has(u, "quiet") => Has(u, "quiet")'
      BY <1>6 DEF Has
    <3>3. \A u \in Thread : HasFor(u, {"initialized"}, o) => HasFor(u, {"initialized"}, o)'
      BY <1>6 DEF HasFor
    <3>4. EnvOf(o)' = EnvOf(o)
      BY <1>2 DEF EnvOf
    <3> QED
      BY <1>2, <3>1, <3>2, <3>3, <3>4 DEF ValueInv
  <2>6. Has(Main, "options_init")' /\ Has(Main, "loading")'
    BY <1>1, <1>3, <1>6 DEF Has
  <2>7. \A u \in Thread \ {Main} : ~("early" \notin program[u] /\ life[u] # "unborn")
    BY <1>1, <2>1 DEF OptionsInv, LoadInv
  <2>8. LoadInv'
    BY <1>1, <2>6, <2>7 DEF LoadInv
  <2> QED
    BY <2>4, <2>5, <2>8 DEF OptionsInv
<1>10. BootInv'
  <2>1. /\ Has(Main, "auto_done")' /\ Has(Main, "process_init")' /\ Has(Main, "heap_main_init")'
        /\ \A m : ~Has(Main, m)
    BY <1>1, <1>3, <1>6 DEF Has
  <2>2. \A u \in Thread \ {Main} : life'[u] # "unborn" \/ ~Idle(u)' => Started'
    BY <1>1, <1>6 DEF BootInv, Started
  <2> QED
    BY <1>1, <2>1, <2>2 DEF BootInv
<1>11. DataInv'
  <2>1. Avoids(c, DataNames) /\ NotAt(t, {"fill", "adopt", "put", "put_cas", "thread_done",
                                          "heap_done", "destructors"})
    BY <1>1, <1>3, <1>4 DEF Avoids, DataNames, NotAt
  <2> QED
    BY <1>1, <1>5, <2>1, DataKept
<1> QED
  BY <1>6, <1>7, <1>8, <1>9, <1>10, <1>11, TogetherHolds DEF Together, Carried

\* The main thread is given the main heap.
LEMMA MainHeap ==
    ASSUME IInv, NEW n \in {"key", "adopt_main"}, Does(Main, n, <<>>),
           UNCHANGED <<owner, cache, mapped, memid, life>>,
           default' = [default EXCEPT ![Main] = HeapMain],
           key => key',
           keyValue'[Main] = HeapMain \/ (~key' /\ keyValue'[Main] = keyValue[Main]),
           keyValue'[Main] = HeapMain => key',
           \A u \in Thread \ {Main} : keyValue'[u] = keyValue[u]
    PROVE  DataInv'
<1>1. /\ DataInv /\ StackInv /\ BootInv /\ LifeTypeOK /\ Main \in Thread /\ Stepped(Main, <<>>)
      /\ ~Idle(Main) /\ Head(todo[Main])[1] = n
  BY TypeParts, Heaps DEF IInv, Does
<1>2. /\ default'[Main] = HeapMain /\ \A u \in Thread \ {Main} : default'[u] = default[u]
      /\ default[Main] \notin Td
  BY <1>1 DEF LifeTypeOK, DataInv, HeapInv
<1>3. \A d \in Td : PlaceInv(d)'
  <2>1. Avoids(<<>>, {"fill", "adopt", "put", "put_cas"}) /\ NotAt(Main, {"fill", "adopt", "put", "put_cas"})
    BY <1>1, MayNone DEF Avoids, NotAt
  <2>2. \A u \in Thread : \A d : InHand(u, d)' <=> InHand(u, d)
    BY <1>1, <2>1, HandKept
  <2>3. \A d \in Td, u \in Thread : default'[u] = d <=> default[u] = d
    BY <1>2, Heaps
  <2>4. \A d \in Td : Places(d)' = Places(d)
    BY <2>2, <2>3 DEF Places
  <2> QED
    BY <1>1, <2>4, PlaceKept DEF DataInv
<1>4. \A u \in Thread \ {Main} : HeapInv(u)'
  <2> TAKE u \in Thread \ {Main}
  <2>1. HeapInv(u) /\ todo'[u] = todo[u]
    BY <1>1 DEF DataInv, Stepped
  <2>2. Ahead(u)' = Ahead(u) /\ (Idle(u)' <=> Idle(u))
    BY <2>1 DEF Ahead, Idle
  <2>3. /\ default'[u] = default[u] /\ keyValue'[u] = keyValue[u]
    BY <1>2
  <2>4. (Ending(u)' <=> Ending(u)) /\ (Has(u, "destructors")' <=> Has(u, "destructors"))
    BY <2>2 DEF Ending, Has
  <2>5. \A s : DataStep(u, s) => DataStep(u, s)'
    BY <2>3, <2>4 DEF DataStep
  <2> QED
    BY <2>1, <2>2, <2>3, <2>4, <2>5 DEF HeapInv
<1>5. HeapInv(Main)'
  <2>1. /\ Ahead(Main)' = Rest(Main) /\ Ahead(Main) = {Head(todo[Main])} \cup Rest(Main)
        /\ \A s \in Rest(Main) : Over(s, Head(todo[Main]))
    BY <1>1, MayNone DEF Stepped
  <2>2. n \notin CountNames
    BY DEF CountNames
  <2>3. \A s \in Rest(Main) : s[1] \notin {"thread_done", "heap_done"}
    BY <1>1, <2>1, <2>2 DEF Over, HeadNames
  <2>4. \A s \in Rest(Main) : DataStep(Main, s)
    BY <1>1, <2>1 DEF DataInv, HeapInv
  <2>5. \A s \in Ahead(Main)' : DataStep(Main, s)'
    BY <1>2, <2>1, <2>3, <2>4, Heaps DEF DataStep, OwnNames
  <2>6. Has(Main, "destructors") => Has(Main, "destructors")'
    BY <1>1, <2>1 DEF Has
  <2>7. life[Main] # "runs" => Has(Main, "destructors")
    BY <1>1 DEF DataInv, HeapInv
  <2>8. ~key => keyValue[Main] = Null
    BY <1>1 DEF DataInv, HeapInv
  <2>9. keyValue'[Main] \in {Null, HeapMain} /\ (~key' => keyValue'[Main] = Null)
    BY <2>8
  <2> QED
    BY <1>2, <2>5, <2>6, <2>7, <2>9, Heaps DEF HeapInv
<1> QED
  BY <1>3, <1>4, <1>5 DEF DataInv

LEMMA DoKeyCreate == ASSUME IInv, NEW t \in Thread, KeyCreate(t) PROVE IInv'
<1>1. /\ Now(t, "key") /\ StackInv /\ BootInv /\ key' = TRUE /\ Then(t, <<>>)
      /\ default' = [default EXCEPT ![t] = HeapMain]
      /\ keyValue' = [keyValue EXCEPT ![t] = HeapMain]
      /\ UNCHANGED <<once, tlsDone, mainId, exited, threads, owner, cache, mapped, memid, life, loaded,
                     pages, drift, messageVars, program, total, local>>
  BY DEF KeyCreate, SetDefault, tdVars, lifeVars, statVars, IInv
<1>2. t = Main /\ (once \/ loaded)
  <2>1. "key" \in MainNames
    BY DEF MainNames
  <2> QED
    BY <1>1, <2>1, MainOnly
<1>3. Does(t, "key", <<>>) /\ Elements(<<>>) = {}
  BY <1>1, MayNone, NowThen
<1>4. Stepped(t, <<>>) /\ NotAt(t, ReadNames)
  BY <1>3 DEF Does, NotAt, ReadNames
<1>5. StatsTypeOK /\ LifeTypeOK
  BY TypeParts DEF IInv
<1>6. StatsTypeOK' /\ LifeTypeOK'
  BY <1>1, <1>5, Heaps DEF StatsTypeOK, LifeTypeOK
<1>7. Carried
  BY <1>1, <1>3, <1>4, Carry
<1>8. BootInv'
  <2>1. \A m : m # "key" /\ Has(Main, m) => Has(Main, m)'
    BY <1>2, <1>3, DoesAhead
  <2>2. \A u \in Thread \ {Main} : life'[u] # "unborn" \/ ~Idle(u)' => Started'
    <3> TAKE u \in Thread \ {Main}
    <3>1. Idle(u)' <=> Idle(u)
      BY <1>2, <1>4 DEF Stepped, Idle
    <3> QED
      BY <1>1, <3>1 DEF BootInv, Started
  <2> QED
    BY <1>1, <1>2, <2>1, <2>2 DEF BootInv
<1>9. DataInv'
  <2>1. keyValue'[Main] = HeapMain /\ \A u \in Thread \ {Main} : keyValue'[u] = keyValue[u]
    BY <1>1, <1>2, <1>5 DEF LifeTypeOK
  <2> QED
    BY <1>1, <1>2, <1>3, <2>1, MainHeap
<1> QED
  BY <1>6, <1>7, <1>8, <1>9, TogetherHolds DEF Together

LEMMA DoAdoptMain == ASSUME IInv, NEW t \in Thread, AdoptMain(t) PROVE IInv'
<1>1. /\ Now(t, "adopt_main") /\ StackInv /\ BootInv /\ Then(t, <<>>) /\ drift' = TRUE
      /\ default' = [default EXCEPT ![t] = HeapMain]
      /\ keyValue' = [keyValue EXCEPT ![t] = IF key THEN HeapMain ELSE @]
      /\ UNCHANGED <<once, tlsDone, key, mainId, exited, threads, owner, cache, mapped, memid, life,
                     loaded, pages, messageVars, program, total, local>>
  BY DEF AdoptMain, SetDefault, processVars, tdVars, statVars, IInv
<1>2. t = Main /\ (once \/ loaded)
  <2>1. "adopt_main" \in MainNames
    BY DEF MainNames
  <2> QED
    BY <1>1, <2>1, MainOnly
<1>3. Does(t, "adopt_main", <<>>) /\ Elements(<<>>) = {}
  BY <1>1, MayNone, NowThen
<1>4. Stepped(t, <<>>) /\ NotAt(t, ReadNames) /\ NotAt(t, BootNames) /\ ~Idle(t)
  BY <1>3 DEF Does, NotAt, ReadNames, BootNames
<1>5. StatsTypeOK /\ LifeTypeOK
  BY TypeParts DEF IInv
<1>6. /\ \A u \in Thread \ {Main} : keyValue'[u] = keyValue[u]
      /\ IF key THEN keyValue'[Main] = HeapMain ELSE keyValue'[Main] = keyValue[Main]
  BY <1>1, <1>2, <1>5 DEF LifeTypeOK
<1>7. ~key => keyValue[Main] = Null
  BY Heaps DEF IInv, DataInv, HeapInv
<1>8. StatsTypeOK' /\ LifeTypeOK'
  BY <1>1, <1>5, Heaps DEF StatsTypeOK, LifeTypeOK
<1>9. Carried
  BY <1>1, <1>3, <1>4, Carry
<1>10. BootInv'
  BY <1>1, <1>2, <1>3, <1>4, BootKept, Heaps
<1>11. DataInv'
  <2>1. keyValue'[Main] = HeapMain => key'
    <3>1. Null # HeapMain
      BY ProcessAssumption
    <3> QED
      BY <1>1, <1>6, <1>7, <3>1
  <2>2. keyValue'[Main] = HeapMain \/ (~key' /\ keyValue'[Main] = keyValue[Main])
    BY <1>1, <1>6
  <2> QED
    BY <1>1, <1>2, <1>3, <1>6, <2>1, <2>2, MainHeap
<1> QED
  BY <1>8, <1>9, <1>10, <1>11, TogetherHolds DEF Together

(***************************************************************************)
(* Taking and leaving thread data.                                         *)
(***************************************************************************)
\* Has the step s the thread data d in hand?
HandStep(s, d) == \/ s[1] \in {"fill", "adopt"} /\ s[2] = d
                  \/ s[1] \in {"put", "put_cas"} /\ s[3] = d

HandNames == {"fill", "adopt", "put", "put_cas"}
MoveNames == HandNames \cup {"cached", "exchange", "os_alloc", "heap_done", "thread_done"}

\* Below a step that takes or leaves thread data there is no other such step.
LEMMA OneHand ==
    ASSUME NEW t \in Thread, NEW n \in MoveNames, NEW c, Does(t, n, c)
    PROVE  /\ \A s \in Rest(t) : s[1] \notin HandNames \cup {"heap_done", "thread_done"}
           /\ \A d : InHand(t, d) <=> HandStep(Head(todo[t]), d)
           /\ \A d : InHand(t, d)' <=> \E s \in Elements(c) : HandStep(s, d)
           /\ \A u \in Thread \ {t} : \A d : InHand(u, d)' <=> InHand(u, d)
<1>1. /\ \A u \in Thread \ {t} : Ahead(u)' = Ahead(u)
      /\ Ahead(t)' = Elements(c) \cup Rest(t) /\ Ahead(t) = {Head(todo[t])} \cup Rest(t)
      /\ \A s \in Rest(t) : Over(s, Head(todo[t]))
      /\ Head(todo[t])[1] = n
  BY SteppedAhead DEF Does, Stepped
<1>2. n \notin CountNames \cup MessageNames
  BY DEF CountNames, MessageNames, MoveNames, HandNames
<1>3. \A s \in Rest(t) : s[1] \notin HandNames \cup {"heap_done", "thread_done"}
  BY <1>1, <1>2 DEF Over, HeadNames, HandNames
<1>4. \A s \in Rest(t) : \A d : ~HandStep(s, d)
  BY <1>3 DEF HandStep, HandNames
<1>5. \A d : InHand(t, d) <=> \E s \in Ahead(t) : HandStep(s, d)
  BY DEF InHand, HandStep
<1>6. \A d : InHand(t, d)' <=> \E s \in Ahead(t)' : HandStep(s, d)
  BY DEF InHand, HandStep
<1>7. \A u \in Thread \ {t} : \A d : InHand(u, d)' <=> InHand(u, d)
  BY <1>1 DEF InHand
<1> QED
  BY <1>1, <1>3, <1>4, <1>5, <1>6, <1>7

\* Thread data that moves from one place to another, or is gone.
LEMMA PlaceMoved ==
    ASSUME NEW d, PlaceInv(d), NEW p \in Places(d), NEW q, Places(d)' \subseteq {q},
           d \in mapped' <=> d \in mapped, Places(d)' # {} \/ memid'[d] = "none" \/ d \notin mapped'
    PROVE  PlaceInv(d)'
BY DEF PlaceInv

\* The places of d, one by one.
LEMMA PlacesOf ==
    /\ \A d, j : <<"cache", j>> \in Places(d) <=> j \in Slot /\ cache[j] = d
    /\ \A d, u : <<"heap", u>> \in Places(d) <=> u \in Thread /\ default[u] = d
    /\ \A d, u : <<"hand", u>> \in Places(d) <=> u \in Thread /\ InHand(u, d)
    /\ \A d : \A p \in Places(d) : \/ \E j \in Slot : p = <<"cache", j>>
                                   \/ \E u \in Thread : p = <<"heap", u>>
                                   \/ \E u \in Thread : p = <<"hand", u>>
    /\ \A j, u, v : <<"cache", j>> # <<"heap", u>> /\ <<"cache", j>> # <<"hand", u>>
                    /\ <<"heap", u>> # <<"hand", v>>
    /\ \A x, y, z : <<x, y>> = <<x, z>> => y = z
BY DEF Places

\* Thread data in one place is in no other.
LEMMA OnlyCache ==
    ASSUME NEW d, PlaceInv(d), NEW i \in Slot, cache[i] = d
    PROVE  /\ <<"cache", i>> \in Places(d) /\ d \in mapped
           /\ \A j \in Slot : cache[j] = d => j = i
           /\ \A u \in Thread : default[u] # d /\ ~InHand(u, d)
<1>1. <<"cache", i>> \in Places(d)
  BY PlacesOf
<1>2. \A p \in Places(d) : p = <<"cache", i>>
  BY <1>1 DEF PlaceInv
<1>3. \A j \in Slot : cache[j] = d => j = i
  BY <1>2, PlacesOf
<1>4. \A u \in Thread : default[u] # d /\ ~InHand(u, d)
  <2> TAKE u \in Thread
  <2>1. <<"heap", u>> # <<"cache", i>> /\ <<"hand", u>> # <<"cache", i>>
    BY PlacesOf
  <2>2. <<"heap", u>> \notin Places(d) /\ <<"hand", u>> \notin Places(d)
    BY <1>2, <2>1
  <2> QED
    BY <2>2, PlacesOf
<1> QED
  BY <1>1, <1>3, <1>4 DEF PlaceInv

LEMMA OnlyHeap ==
    ASSUME NEW d, PlaceInv(d), NEW t \in Thread, default[t] = d
    PROVE  /\ <<"heap", t>> \in Places(d) /\ d \in mapped
           /\ \A j \in Slot : cache[j] # d
           /\ \A u \in Thread : ~InHand(u, d) /\ (default[u] = d => u = t)
<1>1. <<"heap", t>> \in Places(d)
  BY PlacesOf
<1>2. \A p \in Places(d) : p = <<"heap", t>>
  BY <1>1 DEF PlaceInv
<1>3. \A j \in Slot : cache[j] # d
  <2> TAKE j \in Slot
  <2>1. <<"cache", j>> \notin Places(d)
    BY <1>2, PlacesOf
  <2> QED
    BY <2>1, PlacesOf
<1>4. \A u \in Thread : ~InHand(u, d) /\ (default[u] = d => u = t)
  <2> TAKE u \in Thread
  <2>1. <<"hand", u>> # <<"heap", t>> /\ (<<"heap", u>> = <<"heap", t>> => u = t)
    BY PlacesOf
  <2>2. <<"hand", u>> \notin Places(d) /\ (<<"heap", u>> \in Places(d) => u = t)
    BY <1>2, <2>1
  <2> QED
    BY <2>2, PlacesOf
<1> QED
  BY <1>1, <1>3, <1>4 DEF PlaceInv

LEMMA OnlyHand ==
    ASSUME NEW d, PlaceInv(d), NEW t \in Thread, InHand(t, d)
    PROVE  /\ <<"hand", t>> \in Places(d) /\ d \in mapped
           /\ \A j \in Slot : cache[j] # d
           /\ \A u \in Thread : default[u] # d /\ (InHand(u, d) => u = t)
<1>1. <<"hand", t>> \in Places(d)
  BY PlacesOf
<1>2. \A p \in Places(d) : p = <<"hand", t>>
  BY <1>1 DEF PlaceInv
<1>3. \A j \in Slot : cache[j] # d
  <2> TAKE j \in Slot
  <2>1. <<"cache", j>> \notin Places(d)
    BY <1>2, PlacesOf
  <2> QED
    BY <2>1, PlacesOf
<1>4. \A u \in Thread : default[u] # d /\ (InHand(u, d) => u = t)
  <2> TAKE u \in Thread
  <2>1. <<"heap", u>> # <<"hand", t>> /\ (<<"hand", u>> = <<"hand", t>> => u = t)
    BY PlacesOf
  <2>2. <<"heap", u>> \notin Places(d) /\ (<<"hand", u>> \in Places(d) => u = t)
    BY <1>2, <2>1
  <2> QED
    BY <2>2, PlacesOf
<1> QED
  BY <1>1, <1>3, <1>4 DEF PlaceInv

\* A step on the way of thread data keeps all but what DataInv says.
LEMMA Lifely ==
    ASSUME IInv, NEW t \in Thread, NEW c, NEW n, Does(t, n, c), StartSame,
           UNCHANGED <<messageVars, program>>, StatsTypeOK', LifeTypeOK', DataInv',
           n \notin ReadNames \cup BootNames, \A s \in Elements(c) : s[1] \in LifeNames,
           n \in EarlyNames => default' = default /\ (t = Main /\ ~once /\ ~loaded => c = <<>>)
    PROVE  IInv'
<1>1. /\ UNCHANGED <<once, tlsDone, key, mainId, loaded, life>> /\ StackInv /\ BootInv
      /\ Stepped(t, c) /\ ~Idle(t) /\ Now(t, n) /\ NotAt(t, ReadNames) /\ NotAt(t, BootNames)
  BY DEF IInv, StartSame, Does, NotAt
<1>2. Carried
  BY <1>1, Carry
<1>3. n \notin EarlyNames => (t = Main => once \/ loaded)
  BY <1>1, NotEarly
<1>4. once \/ loaded \/ default'[Main] = default[Main]
  <2>1. CASE n \in EarlyNames
    BY <2>1
  <2>2. CASE n \notin EarlyNames /\ t # Main
    BY <1>1, <2>2, OthersStarted DEF Started
  <2> QED
    BY <1>3, <2>1, <2>2
<1>5. (t = Main /\ ~once /\ ~loaded) => \A s \in Elements(c) : s[1] \in EarlyNames \ {"heap_init"}
  BY <1>3, MayNone
<1>6. BootInv'
  BY <1>1, <1>4, <1>5, BootKept, Heaps
<1> QED
  BY <1>2, <1>6, TogetherHolds DEF Together

\* A step that changes no heap.
LEMMA HeapsStay ==
    ASSUME DataInv, NEW t \in Thread, NEW n, NEW c, Does(t, n, c),
           n \notin {"thread_done", "heap_done", "destructors"},
           UNCHANGED <<default, keyValue, key, life, owner>>,
           \A s \in Elements(c) : DataStep(t, s)'
    PROVE  \A u \in Thread : HeapInv(u)'
<1>1. Stepped(t, c) /\ ~Idle(t) /\ NotAt(t, {"destructors"})
  BY DEF Does, NotAt
<1>2. Ending(t) => Ending(t)'
  BY DoesAhead DEF Ending
<1> TAKE u \in Thread
<1>3. HeapInv(u)
  BY DEF DataInv
<1>4. default[u] \in Td => owner[default[u]] = u
  BY <1>3 DEF HeapInv
<1>5. \A s \in Ahead(u) : s[1] = "adopt" => owner[s[2]] = u
  BY <1>3 DEF HeapInv, DataStep
<1> QED
  BY <1>1, <1>2, <1>3, <1>4, <1>5, HeapKept

\* A thread at a step on its way to thread data.
LEMMA OnTheWay ==
    ASSUME DataInv, NEW t \in Thread, NEW n \in OwnNames, NEW c, Does(t, n, c)
    PROVE  t # Main /\ default[t] = HeapEmpty
<1>1. Head(todo[t]) \in Ahead(t) /\ Head(todo[t])[1] = n
  BY DoesAhead DEF Does
<1>2. DataStep(t, Head(todo[t]))
  BY <1>1 DEF DataInv, HeapInv
<1> QED
  BY <1>1, <1>2 DEF DataStep

LEMMA DoCacheLoad == ASSUME IInv, NEW t \in Thread, CacheLoad(t) PROVE IInv'
<1> DEFINE i == Arg(t, 1)
           x == <<"os_alloc", 1>>
           y == <<"cached", i + 1>>
           z == <<"exchange", i>>
<1>1. /\ Now(t, "cached") /\ Control /\ StackInv /\ BootInv /\ DataInv
      /\ Then(t, IF i > Slots THEN <<x>> ELSE IF cache[i] = Null THEN <<y>> ELSE <<z>>)
  BY DEF CacheLoad, IInv
<1>2. i \in Nat \ {0}
  BY <1>1, NowTyped DEF Arg, Typed
<1>3. PICK s \in {x, y, z} : Then(t, <<s>>) /\ (s = z => i <= Slots)
  <2>1. i > Slots \/ i <= Slots
    BY <1>2, ProcessAssumption
  <2> HIDE DEF x, y, z, i
  <2>2. CASE i > Slots
    <3>1. Then(t, <<x>>)
      BY <1>1, <2>2
    <3>2. x # z
      BY DEF x, z
    <3> QED
      BY <3>1, <3>2
  <2>3. CASE ~(i > Slots)
    <3>1. Then(t, <<y>>) \/ Then(t, <<z>>)
      BY <1>1, <2>3
    <3> QED
      BY <2>1, <2>3, <3>1
  <2> QED
    BY <2>2, <2>3
<1>4. s \in Frame /\ s[1] \in {"os_alloc", "cached", "exchange"}
  <2>1. x \in Frame /\ y \in Frame
    BY <1>2, FrameLife
  <2>2. i <= Slots => z \in Frame
    BY <1>2, FrameLife, ProcessAssumption DEF Slot
  <2> QED
    BY <1>3, <2>1, <2>2
<1> HIDE DEF x, y, z, i
<1>5. May(t, <<s>>) /\ Elements(<<s>>) = {s}
  BY <1>4, MayOne DEF MainNames
<1>6. Does(t, "cached", <<s>>)
  <2>1. Closed("cached", s[1])
    BY <1>4 DEF Closed, CountNames, DoneNames, MessageNames
  <2> QED
    BY <1>1, <1>3, <1>5, <2>1, NowThen
<1>7. StartSame /\ DataSame /\ UNCHANGED <<messageVars, program>> /\ StatsTypeOK' /\ LifeTypeOK'
  BY <1>1, ControlFacts
<1>8. t # Main /\ default[t] = HeapEmpty
  BY <1>1, <1>6, OnTheWay DEF OwnNames
<1>9. DataInv'
  <2>1. DataStep(t, s)'
    BY <1>4, <1>7, <1>8 DEF DataStep, DataSame
  <2>2. Ending(t) => Ending(t)'
    BY <1>6, DoesAhead DEF Ending
  <2>3. /\ Stepped(t, <<s>>) /\ ~Idle(t) /\ Avoids(<<s>>, {"fill", "adopt", "put", "put_cas"})
        /\ NotAt(t, {"fill", "adopt", "put", "put_cas", "destructors"})
    BY <1>4, <1>5, <1>6 DEF Does, Avoids, NotAt
  <2> QED
    BY <1>1, <1>5, <1>7, <2>1, <2>2, <2>3, DataMoved DEF DataSame
<1> QED
  <2>1. \A r \in Elements(<<s>>) : r[1] \in LifeNames
    BY <1>4, <1>5 DEF LifeNames, DataNames
  <2>2. "cached" \notin ReadNames \cup BootNames /\ "cached" \notin EarlyNames
    BY DEF ReadNames, BootNames, EarlyNames
  <2> QED
    BY <1>6, <1>7, <1>9, <2>1, <2>2, Lifely

LEMMA DoCacheExchange == ASSUME IInv, NEW t \in Thread, CacheExchange(t) PROVE IInv'
<1> DEFINE i == Arg(t, 1)
           d == cache[i]
           x == <<"fill", d>>
           y == <<"cached", i + 1>>
<1>1. /\ Now(t, "exchange") /\ StackInv /\ BootInv /\ DataInv
      /\ cache' = [cache EXCEPT ![i] = Null]
      /\ \/ d # Null /\ Then(t, <<x>>) /\ memid' = [memid EXCEPT ![d] = "none"]
         \/ d = Null /\ Then(t, <<y>>) /\ memid' = memid
      /\ UNCHANGED <<once, tlsDone, key, mainId, exited, threads, owner, mapped, life, program,
                     loaded, pages, drift, messageVars, default, keyValue, total, local>>
  BY DEF CacheExchange, Exchanged, Wiped, processVars, lifeVars, statVars, IInv
<1>2. i \in Slot /\ i + 1 \in Nat \ {0} /\ Head(todo[t])[1] = "exchange"
  BY <1>1, NowTyped, ProcessAssumption DEF Arg, Typed, Slot
<1>3. StatsTypeOK /\ LifeTypeOK
  BY TypeParts DEF IInv
<1>4. d \in Td \cup {Null}
  BY <1>2, <1>3 DEF LifeTypeOK
<1>5. (d # Null => x \in Frame) /\ y \in Frame /\ x[1] = "fill" /\ x[2] = d /\ y[1] = "cached"
  BY <1>2, <1>4, FrameLife
<1> HIDE DEF i, d, x, y
<1>6. PICK s \in {x, y} : /\ Then(t, <<s>>) /\ (s = x <=> d # Null)
                          /\ memid' = IF d = Null THEN memid ELSE [memid EXCEPT ![d] = "none"]
  BY <1>1, <1>5
<1>7. s \in Frame /\ s[1] \in {"fill", "cached"}
  BY <1>5, <1>6
<1>8. May(t, <<s>>) /\ Elements(<<s>>) = {s}
  BY <1>7, MayOne DEF MainNames
<1>9. Does(t, "exchange", <<s>>)
  <2>1. Closed("exchange", s[1])
    BY <1>7 DEF Closed, CountNames, DoneNames, MessageNames
  <2> QED
    BY <1>1, <1>6, <1>8, <2>1, NowThen
<1>10. t # Main /\ default[t] = HeapEmpty
  BY <1>1, <1>9, OnTheWay DEF OwnNames
<1>11. StatsTypeOK' /\ LifeTypeOK'
  BY <1>1, <1>2, <1>3, <1>4, <1>6 DEF StatsTypeOK, LifeTypeOK
<1>12. \A u \in Thread : HeapInv(u)'
  <2>1. DataStep(t, s)'
    BY <1>1, <1>7, <1>10 DEF DataStep
  <2> QED
    BY <1>1, <1>8, <1>9, <2>1, HeapsStay
<1>13. /\ \A e : ~InHand(t, e) /\ (InHand(t, e)' <=> s = x /\ e = d)
       /\ \A u \in Thread \ {t} : \A e : InHand(u, e)' <=> InHand(u, e)
  <2>1. \A e : ~HandStep(Head(todo[t]), e) /\ (HandStep(s, e) <=> s = x /\ e = d)
    BY <1>2, <1>5, <1>6, <1>7 DEF HandStep
  <2> QED
    BY <1>8, <1>9, <2>1, OneHand DEF MoveNames
<1>14. \A j \in Slot : cache'[j] = IF j = i THEN Null ELSE cache[j]
  BY <1>1, <1>3 DEF LifeTypeOK
<1>15. \A e \in Td : PlaceInv(e)'
  <2> TAKE e \in Td
  <2>1. PlaceInv(e)
    BY <1>1 DEF DataInv
  <2>2. e # Null
    BY Heaps
  <2>3. CASE e # d
    <3>1. \A j \in Slot : cache'[j] = e <=> cache[j] = e
      BY <1>14, <2>2, <2>3 DEF d
    <3>2. \A u \in Thread : InHand(u, e)' <=> InHand(u, e)
      BY <1>13, <2>3
    <3>3. Places(e)' = Places(e)
      BY <1>1, <3>1, <3>2 DEF Places
    <3>4. memid'[e] = memid[e]
      BY <1>3, <1>6, <2>3 DEF LifeTypeOK
    <3> QED
      BY <1>1, <2>1, <3>3, <3>4, PlaceKept
  <2>4. CASE e = d
    <3>1. /\ <<"cache", i>> \in Places(e) /\ \A j \in Slot : cache[j] = e => j = i
          /\ \A u \in Thread : default[u] # e /\ ~InHand(u, e)
      <4>1. i \in Slot /\ cache[i] = e
        BY <1>2, <2>4 DEF d
      <4> QED
        BY <2>1, <4>1, OnlyCache
    <3>3. \A j \in Slot : cache'[j] # e
      BY <1>14, <2>2, <3>1
    <3>4. \A u \in Thread : default'[u] # e
      BY <1>1, <3>1
    <3>5. \A u \in Thread : InHand(u, e)' => u = t
      BY <1>13, <3>1
    <3>6. Places(e)' \subseteq {<<"hand", t>>}
      BY <3>3, <3>4, <3>5 DEF Places
    <3>7. memid'[e] = "none"
      BY <1>3, <1>6, <2>2, <2>4 DEF LifeTypeOK
    <3> QED
      BY <1>1, <2>1, <3>1, <3>6, <3>7, PlaceMoved
  <2> QED
    BY <2>3, <2>4
<1> QED
  <2>1. \A r \in Elements(<<s>>) : r[1] \in LifeNames
    BY <1>7, <1>8 DEF LifeNames, DataNames
  <2>2. "exchange" \notin ReadNames \cup BootNames /\ "exchange" \notin EarlyNames
    BY DEF ReadNames, BootNames, EarlyNames
  <2>3. StartSame /\ UNCHANGED <<messageVars, program>> /\ DataInv'
    BY <1>1, <1>12, <1>15 DEF StartSame, DataInv
  <2> QED
    BY <1>9, <1>11, <2>1, <2>2, <2>3, Lifely

\* Thread data that come into hand from nowhere.
LEMMA PlaceTaken ==
    ASSUME NEW d, NEW t, Places(d) = {}, Places(d)' \subseteq {<<"hand", t>>}, d \in mapped',
           Places(d)' # {}
    PROVE  PlaceInv(d)'
BY DEF PlaceInv

LEMMA TdAllocTakes ==
    ASSUME IInv, NEW t \in Thread, Now(t, "os_alloc"), NEW d \in Td \ mapped,
           mapped' = mapped \cup {d}, memid' = [memid EXCEPT ![d] = "os"],
           Then(t, <<<<"fill", d>>>>),
           UNCHANGED <<once, tlsDone, key, mainId, exited, threads, owner, cache, life, program,
                       loaded, pages, drift, messageVars, default, keyValue, total, local>>
    PROVE  IInv'
<1> DEFINE s == <<"fill", d>>
<1>1. StackInv /\ BootInv /\ DataInv /\ Then(t, <<s>>)
  BY DEF IInv
<1>2. s \in Frame /\ s[1] = "fill" /\ s[2] = d
  BY FrameLife
<1> HIDE DEF s
<1>3. May(t, <<s>>) /\ Elements(<<s>>) = {s}
  BY <1>2, MayOne DEF MainNames
<1>4. Does(t, "os_alloc", <<s>>) /\ Head(todo[t])[1] = "os_alloc"
  <2>1. Closed("os_alloc", s[1])
    BY <1>2 DEF Closed, CountNames, DoneNames, MessageNames
  <2>2. Does(t, "os_alloc", <<s>>)
    BY <1>1, <1>3, <2>1, NowThen
  <2> QED
    BY <2>2 DEF Does
<1>5. t # Main /\ default[t] = HeapEmpty
  BY <1>1, <1>4, OnTheWay DEF OwnNames
<1>6. StatsTypeOK /\ LifeTypeOK
  BY TypeParts DEF IInv
<1>7. StatsTypeOK' /\ LifeTypeOK'
  BY <1>6 DEF StatsTypeOK, LifeTypeOK
<1>8. \A u \in Thread : HeapInv(u)'
  <2>1. DataStep(t, s)'
    BY <1>2, <1>5 DEF DataStep
  <2> QED
    BY <1>1, <1>3, <1>4, <2>1, HeapsStay
<1>9. /\ \A e : ~InHand(t, e) /\ (InHand(t, e)' <=> e = d)
      /\ \A u \in Thread \ {t} : \A e : InHand(u, e)' <=> InHand(u, e)
  <2>1. \A e : ~HandStep(Head(todo[t]), e) /\ (HandStep(s, e) <=> e = d)
    BY <1>2, <1>4 DEF HandStep
  <2> QED
    BY <1>3, <1>4, <2>1, OneHand DEF MoveNames
<1>10. \A e \in Td : PlaceInv(e)'
  <2> TAKE e \in Td
  <2>1. PlaceInv(e)
    BY <1>1 DEF DataInv
  <2>2. CASE e # d
    <3>1. \A u \in Thread : InHand(u, e)' <=> InHand(u, e)
      BY <1>9, <2>2
    <3>2. Places(e)' = Places(e)
      BY <3>1 DEF Places
    <3>3. memid'[e] = memid[e] /\ (e \in mapped' <=> e \in mapped)
      BY <1>6, <2>2 DEF LifeTypeOK
    <3> QED
      BY <2>1, <3>2, <3>3, PlaceKept
  <2>3. CASE e = d
    <3>1. Places(e) = {}
      BY <2>1, <2>3 DEF PlaceInv
    <3>2. /\ \A j \in Slot : cache[j] # e
          /\ \A u \in Thread : default[u] # e /\ ~InHand(u, e)
      BY <3>1, PlacesOf
    <3>3. Places(e)' = {<<"hand", t>>}
      <4>1. \A u \in Thread : InHand(u, e)' <=> u = t
        BY <1>9, <2>3, <3>2
      <4> QED
        BY <3>2, <4>1 DEF Places
    <3> QED
      BY <2>3, <3>1, <3>3, PlaceTaken
  <2> QED
    BY <2>2, <2>3
<1> QED
  <2>1. \A r \in Elements(<<s>>) : r[1] \in LifeNames
    BY <1>2, <1>3 DEF LifeNames, DataNames
  <2>2. "os_alloc" \notin ReadNames \cup BootNames /\ "os_alloc" \notin EarlyNames
    BY DEF ReadNames, BootNames, EarlyNames
  <2>3. StartSame /\ UNCHANGED <<messageVars, program>> /\ DataInv'
    BY <1>8, <1>10 DEF StartSame, DataInv
  <2> QED
    BY <1>4, <1>7, <2>1, <2>2, <2>3, Lifely

LEMMA DoTdAlloc == ASSUME IInv, NEW t \in Thread, TdAlloc(t) PROVE IInv'
<1> DEFINE x == <<"os_alloc", 2>>
           y == <<"message", "error">>
           a == <<"stat", "threads", 1>>
           b == <<"count", 1>>
<1>1. /\ Now(t, "os_alloc") /\ StackInv /\ BootInv /\ DataInv
      /\ UNCHANGED <<once, tlsDone, key, mainId, exited, threads, owner, cache, life, program,
                     loaded, pages, messageVars, default, keyValue, total, local>>
      /\ \/ \E d \in Td \ mapped : /\ mapped' = mapped \cup {d} /\ memid' = [memid EXCEPT ![d] = "os"]
                                   /\ Then(t, <<<<"fill", d>>>>) /\ UNCHANGED drift
         \/ /\ UNCHANGED <<mapped, memid>> /\ drift' = (drift \/ Arg(t, 1) = 2)
            /\ Then(t, <<x>>) \/ Then(t, <<y>> \o <<a, b>>)
  BY DEF TdAlloc, Counted, processVars, statVars, IInv
<1>2. CASE \E d \in Td \ mapped : /\ mapped' = mapped \cup {d} /\ memid' = [memid EXCEPT ![d] = "os"]
                                  /\ Then(t, <<<<"fill", d>>>>) /\ UNCHANGED drift
  BY <1>1, <1>2, TdAllocTakes
<1>3. CASE /\ UNCHANGED <<mapped, memid>> /\ drift' = (drift \/ Arg(t, 1) = 2)
           /\ Then(t, <<x>>) \/ Then(t, <<y>> \o <<a, b>>)
  <2>1. /\ x \in Frame /\ y \in Frame /\ a \in Frame /\ b \in Frame
        /\ x[1] = "os_alloc" /\ y[1] = "message" /\ a[1] = "stat" /\ b[1] = "count"
    BY FrameLife, FrameStats, FrameText DEF Stat, Kind
  <2> DEFINE c == <<y>> \o <<a, b>>
  <2>2. Elements(c) = {y, a, b}
    BY DEF Elements
  <2>3. May(t, c)
    <3> DEFINE v == <<y>>
               w == <<a, b>>
    <3> HIDE DEF x, y, a, b
    <3>1. Over(b, a) /\ Over(a, y) /\ Over(b, y)
      BY <2>1 DEF Over, HeadNames
    <3>2. May(t, v) /\ Elements(v) = {y}
      BY <2>1, MayOne DEF MainNames
    <3>3. May(t, w) /\ Elements(w) = {a, b}
      BY <2>1, <3>1, MayTwo DEF MainNames
    <3> HIDE DEF v, w
    <3>4. May(t, v \o w)
      BY <3>1, <3>2, <3>3, MayJoin
    <3> QED
      BY <3>4 DEF v, w
  <2>4. Then(t, <<x>>) \/ Then(t, c)
    BY <1>3
  <2> HIDE DEF x, y, a, b, c
  <2>5. May(t, <<x>>) /\ Elements(<<x>>) = {x}
    BY <2>1, MayOne DEF MainNames
  <2>6. \A s \in {x, y, a, b} : Closed("os_alloc", s[1])
    BY <2>1 DEF Closed, CountNames, DoneNames, MessageNames
  <2>7. PICK r : Does(t, "os_alloc", r) /\ Elements(r) \subseteq {x, y, a, b}
    <3>1. CASE Then(t, <<x>>)
      BY <1>1, <2>5, <2>6, <3>1, NowThen
    <3>2. CASE Then(t, c)
      BY <1>1, <2>2, <2>3, <2>6, <3>2, NowThen
    <3> QED
      BY <2>4, <3>1, <3>2
  <2>8. t # Main /\ default[t] = HeapEmpty
    BY <1>1, <2>7, OnTheWay DEF OwnNames
  <2>9. StatsTypeOK' /\ LifeTypeOK'
    <3>1. StatsTypeOK /\ LifeTypeOK
      BY TypeParts DEF IInv
    <3> QED
      BY <1>1, <1>3, <3>1 DEF StatsTypeOK, LifeTypeOK
  <2>10. DataInv'
    <3>1. \A s \in Elements(r) : DataStep(t, s)'
      BY <1>1, <2>1, <2>7, <2>8 DEF DataStep, OwnNames
    <3>2. Ending(t) => Ending(t)'
      BY <2>7, DoesAhead DEF Ending
    <3>3. /\ Stepped(t, r) /\ ~Idle(t) /\ Avoids(r, {"fill", "adopt", "put", "put_cas"})
          /\ NotAt(t, {"fill", "adopt", "put", "put_cas", "destructors"})
      BY <2>1, <2>7 DEF Does, Avoids, NotAt
    <3> QED
      BY <1>1, <1>3, <3>1, <3>2, <3>3, DataMoved
  <2> QED
    <3>1. \A s \in Elements(r) : s[1] \in LifeNames
      BY <2>1, <2>7 DEF LifeNames, DataNames, CountNames
    <3>2. "os_alloc" \notin ReadNames \cup BootNames /\ "os_alloc" \notin EarlyNames
      BY DEF ReadNames, BootNames, EarlyNames
    <3>3. StartSame /\ UNCHANGED <<messageVars, program>>
      BY <1>1 DEF StartSame
    <3> QED
      BY <2>7, <2>9, <2>10, <3>1, <3>2, <3>3, Lifely
<1> QED
  BY <1>1, <1>2, <1>3

LEMMA DoTdFill == ASSUME IInv, NEW t \in Thread, TdFill(t) PROVE IInv'
<1> DEFINE d == Arg(t, 1)
           x == <<"adopt", d>>
           y == <<"message", "warning">>
           a == <<"stat", "threads", 1>>
           b == <<"count", 1>>
           c == (<<>> \o <<x>>) \o <<a, b>>
           e == (<<y>> \o <<x>>) \o <<a, b>>
<1>1. /\ Now(t, "fill") /\ StackInv /\ BootInv /\ DataInv
      /\ owner' = [owner EXCEPT ![d] = t] /\ local' = [local EXCEPT ![d] = Zero]
      /\ Then(t, c) \/ Then(t, e)
      /\ UNCHANGED <<once, tlsDone, key, mainId, exited, threads, cache, mapped, memid, life, program,
                     loaded, pages, drift, messageVars, default, keyValue, total>>
  BY DEF TdFill, Counted, processVars, IInv
<1>2. d \in Td /\ Head(todo[t])[1] = "fill" /\ Head(todo[t])[2] = d
  BY <1>1, NowTyped DEF Arg, Typed
<1>3. /\ x \in Frame /\ y \in Frame /\ a \in Frame /\ b \in Frame
      /\ x[1] = "adopt" /\ x[2] = d /\ y[1] = "message" /\ a[1] = "stat" /\ b[1] = "count"
  BY <1>2, FrameLife, FrameStats, FrameText DEF Stat, Kind
<1>4. Elements(c) = {x, a, b} /\ Elements(e) = {y, x, a, b}
  BY DEF Elements
<1>5. May(t, c) /\ May(t, e)
  <2> DEFINE v == <<x>>
             w == <<a, b>>
             z == <<y>>
             n == <<>>
  <2> HIDE DEF x, y, a, b, d
  <2>1. /\ Over(b, a) /\ Over(a, y) /\ Over(b, y) /\ Over(x, y) /\ Over(a, x) /\ Over(b, x)
    BY <1>3 DEF Over, HeadNames, MessageNames
  <2>2. May(t, v) /\ Elements(v) = {x} /\ May(t, z) /\ Elements(z) = {y}
    BY <1>3, MayOne DEF MainNames
  <2>3. May(t, w) /\ Elements(w) = {a, b}
    BY <1>3, <2>1, MayTwo DEF MainNames
  <2>4. May(t, n) /\ Elements(n) = {}
    BY MayNone
  <2> HIDE DEF v, w, z, n
  <2>5. May(t, n \o v) /\ Elements(n \o v) = {x}
    BY <2>2, <2>4, MayJoin
  <2>6. May(t, z \o v) /\ Elements(z \o v) = {x, y}
    BY <2>1, <2>2, MayJoin
  <2>7. May(t, (n \o v) \o w)
    BY <2>1, <2>3, <2>5, MayJoin
  <2>8. May(t, (z \o v) \o w)
    BY <2>1, <2>3, <2>6, MayJoin
  <2> QED
    BY <2>7, <2>8 DEF n, v, w, z
<1> HIDE DEF d, x, y, a, b, c, e
<1>6. \A s \in {x, y, a, b} : Closed("fill", s[1])
  BY <1>3 DEF Closed, CountNames, DoneNames, MessageNames
<1>7. PICK r : Does(t, "fill", r) /\ Elements(r) \subseteq {x, y, a, b} /\ x \in Elements(r)
  <2>1. CASE Then(t, c)
    BY <1>1, <1>4, <1>5, <1>6, <2>1, NowThen
  <2>2. CASE Then(t, e)
    BY <1>1, <1>4, <1>5, <1>6, <2>2, NowThen
  <2> QED
    BY <1>1, <2>1, <2>2
<1>8. t # Main /\ default[t] = HeapEmpty
  BY <1>1, <1>7, OnTheWay DEF OwnNames
<1>9. StatsTypeOK /\ LifeTypeOK
  BY TypeParts DEF IInv
<1>10. StatsTypeOK' /\ LifeTypeOK'
  <2>1. Zero \in Count
    BY DEF Zero, Count
  <2> QED
    BY <1>1, <1>9, <2>1 DEF StatsTypeOK, LifeTypeOK
<1>11. /\ \A g : (InHand(t, g) <=> g = d) /\ (InHand(t, g)' <=> g = d)
       /\ \A u \in Thread \ {t} : \A g : InHand(u, g)' <=> InHand(u, g)
       /\ \A s \in Rest(t) : s[1] # "adopt"
  <2>1. \A g : HandStep(Head(todo[t]), g) <=> g = d
    BY <1>2 DEF HandStep
  <2>2. \A g : (\E s \in Elements(r) : HandStep(s, g)) <=> g = d
    BY <1>3, <1>7 DEF HandStep
  <2> QED
    BY <1>7, <2>1, <2>2, OneHand DEF MoveNames, HandNames
<1>12. \A g \in Td : PlaceInv(g)'
  <2>1. \A u \in Thread : \A g : InHand(u, g)' <=> InHand(u, g)
    BY <1>11
  <2> QED
    BY <1>1, <2>1, PlacesKept, PlaceKept DEF DataInv
<1>13. \A u \in Thread : default[u] # d /\ (InHand(u, d) => u = t)
  <2>1. InHand(t, d) /\ PlaceInv(d)
    BY <1>1, <1>2, <1>11 DEF DataInv
  <2> QED
    BY <2>1, OnlyHand
<1>14. \A u \in Thread : HeapInv(u)'
  <2> TAKE u \in Thread
  <2>1. HeapInv(u)
    BY <1>1 DEF DataInv
  <2>2. default[u] \in Td => owner'[default[u]] = u
    BY <1>1, <1>9, <1>13, <2>1 DEF HeapInv, LifeTypeOK
  <2>3. \A s \in Ahead(u) : s[1] = "adopt" => owner'[s[2]] = u
    <3> SUFFICES ASSUME NEW s \in Ahead(u), s[1] = "adopt"
                 PROVE  owner'[s[2]] = u
      OBVIOUS
    <3>1. owner[s[2]] = u /\ InHand(u, s[2]) /\ s[2] \in Td
      BY <1>1, <2>1, AheadTyped DEF HeapInv, DataStep, InHand, Typed
    <3>2. u # t
      BY <1>2, <1>7, <1>11 DEF Does, Stepped
    <3> QED
      BY <1>1, <1>9, <1>13, <3>1, <3>2 DEF LifeTypeOK
  <2>4. \A s \in Elements(r) : DataStep(t, s)'
    <3>1. owner'[d] = t
      BY <1>1, <1>2, <1>9 DEF LifeTypeOK
    <3> QED
      BY <1>1, <1>3, <1>7, <1>8, <3>1 DEF DataStep, OwnNames
  <2>5. Ending(t) => Ending(t)'
    BY <1>7, DoesAhead DEF Ending
  <2>6. Stepped(t, r) /\ ~Idle(t) /\ NotAt(t, {"destructors"})
    BY <1>7 DEF Does, NotAt
  <2> QED
    BY <1>1, <2>1, <2>2, <2>3, <2>4, <2>5, <2>6, HeapKept
<1> QED
  <2>1. \A s \in Elements(r) : s[1] \in LifeNames
    BY <1>3, <1>7 DEF LifeNames, DataNames, CountNames
  <2>2. "fill" \notin ReadNames \cup BootNames /\ "fill" \notin EarlyNames
    BY DEF ReadNames, BootNames, EarlyNames
  <2>3. StartSame /\ UNCHANGED <<messageVars, program>> /\ DataInv'
    BY <1>1, <1>12, <1>14 DEF StartSame, DataInv
  <2> QED
    BY <1>7, <1>10, <2>1, <2>2, <2>3, Lifely

LEMMA DoTdAdopt == ASSUME IInv, NEW t \in Thread, TdAdopt(t) PROVE IInv'
<1> DEFINE d == Arg(t, 1)
<1>1. /\ Now(t, "adopt") /\ StackInv /\ BootInv /\ DataInv /\ Then(t, <<>>)
      /\ default' = [default EXCEPT ![t] = d]
      /\ keyValue' = [keyValue EXCEPT ![t] = IF key THEN d ELSE @]
      /\ UNCHANGED <<once, tlsDone, key, mainId, exited, threads, owner, cache, mapped, memid, life,
                     program, loaded, pages, drift, messageVars, total, local>>
  BY DEF TdAdopt, SetDefault, processVars, tdVars, lifeVars, statVars, IInv
<1>2. d \in Td /\ Head(todo[t])[1] = "adopt" /\ Head(todo[t])[2] = d /\ Head(todo[t]) \in Ahead(t)
  BY <1>1, NowTyped DEF Arg, Typed
<1> HIDE DEF d
<1>3. Does(t, "adopt", <<>>) /\ Elements(<<>>) = {}
  BY <1>1, MayNone, NowThen
<1>4. t # Main /\ default[t] = HeapEmpty
  BY <1>1, <1>3, OnTheWay DEF OwnNames
<1>5. key
  BY <1>1, <1>3, <1>4, OthersStarted DEF Started, Does
<1>6. StatsTypeOK /\ LifeTypeOK
  BY TypeParts DEF IInv
<1>7. /\ default'[t] = d /\ keyValue'[t] = d
      /\ \A u \in Thread \ {t} : default'[u] = default[u] /\ keyValue'[u] = keyValue[u]
  BY <1>1, <1>5, <1>6 DEF LifeTypeOK
<1>8. StatsTypeOK' /\ LifeTypeOK'
  <2>1. d \in DefaultHeap
    BY <1>2, Heaps
  <2> QED
    BY <1>1, <1>6, <2>1 DEF StatsTypeOK, LifeTypeOK
<1>9. /\ \A e : (InHand(t, e) <=> e = d) /\ ~InHand(t, e)'
      /\ \A u \in Thread \ {t} : \A e : InHand(u, e)' <=> InHand(u, e)
      /\ \A s \in Rest(t) : s[1] \notin HandNames \cup {"heap_done", "thread_done"}
  <2>1. \A e : HandStep(Head(todo[t]), e) <=> e = d
    BY <1>2 DEF HandStep
  <2> QED
    BY <1>3, <2>1, OneHand DEF MoveNames, HandNames
<1>10. \A e \in Td : PlaceInv(e)'
  <2> TAKE e \in Td
  <2>1. PlaceInv(e) /\ e # HeapEmpty
    BY <1>1, Heaps DEF DataInv
  <2>2. CASE e # d
    <3>1. \A u \in Thread : (InHand(u, e)' <=> InHand(u, e)) /\ (default'[u] = e <=> default[u] = e)
      BY <1>4, <1>7, <1>9, <2>1, <2>2
    <3>2. Places(e)' = Places(e)
      BY <1>1, <3>1 DEF Places
    <3> QED
      BY <1>1, <2>1, <3>2, PlaceKept
  <2>3. CASE e = d
    <3>1. /\ <<"hand", t>> \in Places(e) /\ \A j \in Slot : cache[j] # e
          /\ \A u \in Thread : default[u] # e /\ (InHand(u, e) => u = t)
      <4>1. InHand(t, e)
        BY <1>9, <2>3
      <4> QED
        BY <2>1, <4>1, OnlyHand
    <3>2. \A u \in Thread : ~InHand(u, e)' /\ (default'[u] = e <=> u = t)
      BY <1>7, <1>9, <2>3, <3>1
    <3>3. Places(e)' = {<<"heap", t>>}
      BY <1>1, <3>1, <3>2 DEF Places
    <3> QED
      BY <1>1, <2>1, <3>1, <3>3, PlaceMoved
  <2> QED
    BY <2>2, <2>3
<1>11. /\ Ahead(t)' = Rest(t) /\ Ahead(t) = {Head(todo[t])} \cup Rest(t)
       /\ Idle(t)' <=> Rest(t) = {}
       /\ \A s \in Rest(t) : s[1] \notin OwnNames /\ (s[1] = "destructors" => ~(s[2] > 2))
  <2>1. /\ Ahead(t)' = Rest(t) /\ Ahead(t) = {Head(todo[t])} \cup Rest(t)
        /\ Idle(t)' <=> Rest(t) = {}
        /\ \A s \in Rest(t) : Over(s, Head(todo[t]))
    BY <1>3 DEF Does, Stepped
  <2>2. "adopt" \notin DoneNames
    BY DEF DoneNames, CountNames
  <2>3. \A s \in Rest(t) : s[1] = "destructors" => ~(s[2] > 2)
    BY <1>2, <2>1, <2>2 DEF Over
  <2>4. \A s \in Rest(t) : s[1] \notin OwnNames
    BY <1>9, <2>1 DEF Over, HeadNames, OwnNames, HandNames
  <2> QED
    BY <2>1, <2>3, <2>4
<1>12. HeapInv(t)'
  <2>1. HeapInv(t)
    BY <1>1 DEF DataInv
  <2>2. owner[d] = t
    BY <1>2, <2>1 DEF HeapInv, DataStep
  <2>3. \A s \in Rest(t) : DataStep(t, s)'
    BY <1>1, <1>9, <1>11, <2>1 DEF HeapInv, DataStep
  <2>4. life[t] # "runs" => Has(t, "destructors")' /\ ~Idle(t)'
    <3>1. life[t] # "runs" => Has(t, "destructors")
      BY <1>3, <2>1 DEF HeapInv, Does
    <3>2. Has(t, "destructors") => \E s \in Rest(t) : s[1] = "destructors"
      BY <1>2, <1>11 DEF Has
    <3> QED
      BY <1>11, <3>1, <3>2 DEF Has
  <2>5. d # HeapMain
    BY <1>2, Heaps
  <2> QED
    BY <1>1, <1>4, <1>5, <1>7, <1>11, <2>2, <2>3, <2>4, <2>5 DEF HeapInv
<1>13. \A u \in Thread : HeapInv(u)'
  <2> TAKE u \in Thread
  <2>1. HeapInv(u) /\ Stepped(t, <<>>)
    BY <1>1, <1>3 DEF DataInv, Does
  <2>2. default[u] \in Td => owner[default[u]] = u
    BY <2>1 DEF HeapInv
  <2>3. \A s \in Ahead(u) : s[1] = "adopt" => owner[s[2]] = u
    BY <2>1 DEF HeapInv, DataStep
  <2>4. CASE u # t
    BY <1>1, <1>7, <2>1, <2>2, <2>3, <2>4, HeapKept
  <2> QED
    BY <1>12, <2>4
<1> QED
  <2>1. "adopt" \notin ReadNames \cup BootNames /\ "adopt" \notin EarlyNames
    BY DEF ReadNames, BootNames, EarlyNames
  <2>2. StartSame /\ UNCHANGED <<messageVars, program>> /\ DataInv'
    BY <1>1, <1>10, <1>13 DEF StartSame, DataInv
  <2> QED
    BY <1>3, <1>8, <2>1, <2>2, Lifely

\* Thread data that are given back, or were through the cache and are lost.
LEMMA PlaceGone ==
    ASSUME NEW d, Places(d)' = {}, d \notin mapped' \/ memid'[d] = "none"
    PROVE  PlaceInv(d)'
BY DEF PlaceInv

LEMMA Unmapped ==
    ASSUME LifeTypeOK, NEW d \in Td, Unmap(d), UNCHANGED memid
    PROVE  /\ mapped' \subseteq Td /\ \A e \in Td \ {d} : e \in mapped' <=> e \in mapped
           /\ d \notin mapped' \/ memid'[d] = "none"
BY DEF LifeTypeOK, Unmap

LEMMA DoCacheFind == ASSUME IInv, NEW t \in Thread, CacheFind(t) PROVE IInv'
<1> DEFINE i == Arg(t, 1)
           d == Arg(t, 2)
           x == <<"put_cas", i, d>>
           y == <<"put", i + 1, d>>
<1>1. /\ Now(t, "put") /\ StackInv /\ BootInv /\ DataInv
      /\ \/ Unmap(d) /\ Then(t, <<>>)
         \/ i <= Slots /\ UNCHANGED mapped /\ Then(t, IF cache[i] = Null THEN <<x>> ELSE <<y>>)
      /\ UNCHANGED <<once, tlsDone, key, mainId, exited, threads, owner, cache, memid, life, program,
                     loaded, pages, drift, messageVars, default, keyValue, total, local>>
  BY DEF CacheFind, processVars, lifeVars, statVars, IInv
<1>2. /\ i \in Nat \ {0} /\ d \in Td /\ Head(todo[t])[1] = "put" /\ Head(todo[t])[3] = d
  BY <1>1, NowTyped DEF Arg, Typed
<1>3. /\ i <= Slots => x \in Frame
      /\ y \in Frame /\ x[1] = "put_cas" /\ x[3] = d /\ y[1] = "put" /\ y[3] = d
  BY <1>2, FrameLife, ProcessAssumption DEF Slot
<1> HIDE DEF i, d, x, y
<1>4. \A s \in {x, y} : s \in Frame => May(t, <<s>>) /\ Elements(<<s>>) = {s}
  BY <1>3, MayOne DEF MainNames
<1>5. \A s \in {x, y} : Closed("put", s[1])
  BY <1>3 DEF Closed, CountNames, DoneNames, MessageNames
<1>6. PICK c : /\ Does(t, "put", c) /\ Elements(c) \subseteq {x, y}
               /\ IF Elements(c) = {} THEN Unmap(d) ELSE UNCHANGED mapped
  <2>1. CASE Unmap(d) /\ Then(t, <<>>)
    <3>1. Does(t, "put", <<>>)
      BY <1>1, <2>1, MayNone, NowThen
    <3> QED
      BY <2>1, <3>1, MayNone
  <2>2. ASSUME NEW s \in {x, y}, s \in Frame, Then(t, <<s>>), UNCHANGED mapped
        PROVE  \E c : /\ Does(t, "put", c) /\ Elements(c) \subseteq {x, y}
                      /\ IF Elements(c) = {} THEN Unmap(d) ELSE UNCHANGED mapped
    <3>1. May(t, <<s>>) /\ Elements(<<s>>) = {s}
      BY <1>4, <2>2
    <3>2. Does(t, "put", <<s>>)
      BY <1>1, <1>5, <2>2, <3>1, NowThen
    <3> QED
      BY <2>2, <3>1, <3>2
  <2>3. CASE i <= Slots /\ UNCHANGED mapped /\ Then(t, IF cache[i] = Null THEN <<x>> ELSE <<y>>)
    <3>1. CASE cache[i] = Null
      BY <1>3, <2>2, <2>3, <3>1
    <3>2. CASE cache[i] # Null
      BY <1>3, <2>2, <2>3, <3>2
    <3> QED
      BY <3>1, <3>2
  <2> QED
    BY <1>1, <2>1, <2>3
<1>7. StatsTypeOK /\ LifeTypeOK
  BY TypeParts DEF IInv
<1>8. Elements(c) = {} => /\ mapped' \subseteq Td /\ \A e \in Td \ {d} : e \in mapped' <=> e \in mapped
                          /\ d \notin mapped' \/ memid'[d] = "none"
  BY <1>1, <1>2, <1>6, <1>7, Unmapped
<1>9. StatsTypeOK' /\ LifeTypeOK'
  BY <1>1, <1>6, <1>7, <1>8 DEF StatsTypeOK, LifeTypeOK
<1>10. /\ \A e : (InHand(t, e) <=> e = d) /\ (InHand(t, e)' <=> e = d /\ Elements(c) # {})
       /\ \A u \in Thread \ {t} : \A e : InHand(u, e)' <=> InHand(u, e)
  <2>1. \A e : HandStep(Head(todo[t]), e) <=> e = d
    BY <1>2 DEF HandStep
  <2>2. \A e : (\E s \in Elements(c) : HandStep(s, e)) <=> e = d /\ Elements(c) # {}
    BY <1>3, <1>6 DEF HandStep
  <2> QED
    BY <1>6, <2>1, <2>2, OneHand DEF MoveNames, HandNames
<1>11. \A e \in Td : PlaceInv(e)'
  <2> TAKE e \in Td
  <2>1. PlaceInv(e)
    BY <1>1 DEF DataInv
  <2>2. CASE e # d \/ Elements(c) # {}
    <3>1. \A u \in Thread : InHand(u, e)' <=> InHand(u, e)
      BY <1>10, <2>2
    <3>2. Places(e)' = Places(e)
      BY <1>1, <3>1 DEF Places
    <3>3. e \in mapped' <=> e \in mapped
      BY <1>6, <1>8, <2>2
    <3> QED
      BY <1>1, <2>1, <3>2, <3>3, PlaceKept
  <2>3. CASE e = d /\ Elements(c) = {}
    <3>1. /\ \A j \in Slot : cache[j] # e
          /\ \A u \in Thread : default[u] # e /\ (InHand(u, e) => u = t)
      <4>1. InHand(t, e)
        BY <1>10, <2>3
      <4> QED
        BY <2>1, <4>1, OnlyHand
    <3>2. \A u \in Thread : ~InHand(u, e)'
      BY <1>10, <2>3, <3>1
    <3>3. Places(e)' = {}
      BY <1>1, <3>1, <3>2 DEF Places
    <3> QED
      BY <1>8, <2>3, <3>3, PlaceGone
  <2> QED
    BY <2>2, <2>3
<1>12. \A u \in Thread : HeapInv(u)'
  <2>1. \A s \in Elements(c) : DataStep(t, s)'
    BY <1>3, <1>6 DEF DataStep, OwnNames
  <2> QED
    BY <1>1, <1>6, <2>1, HeapsStay
<1> QED
  <2>1. \A s \in Elements(c) : s[1] \in LifeNames
    BY <1>3, <1>6 DEF LifeNames, DataNames
  <2>2. "put" \notin ReadNames \cup BootNames /\ "put" \notin EarlyNames
    BY DEF ReadNames, BootNames, EarlyNames
  <2>3. StartSame /\ UNCHANGED <<messageVars, program>> /\ DataInv'
    BY <1>1, <1>11, <1>12 DEF StartSame, DataInv
  <2> QED
    BY <1>6, <1>9, <2>1, <2>2, <2>3, Lifely

LEMMA DoCachePut == ASSUME IInv, NEW t \in Thread, CachePut(t) PROVE IInv'
<1> DEFINE i == Arg(t, 1)
           d == Arg(t, 2)
           y == <<"put", i + 1, d>>
<1>1. /\ Now(t, "put_cas") /\ StackInv /\ BootInv /\ DataInv
      /\ \/ cache[i] = Null /\ cache' = [cache EXCEPT ![i] = d] /\ Then(t, <<>>)
         \/ UNCHANGED cache /\ Then(t, <<y>>)
      /\ UNCHANGED <<once, tlsDone, key, mainId, exited, threads, owner, mapped, memid, life, program,
                     loaded, pages, drift, messageVars, default, keyValue, total, local>>
  BY DEF CachePut, Vacant, processVars, lifeVars, statVars, IInv
<1>2. /\ i \in Slot /\ d \in Td /\ Head(todo[t])[1] = "put_cas" /\ Head(todo[t])[3] = d
  BY <1>1, NowTyped DEF Arg, Typed
<1>3. y \in Frame /\ y[1] = "put" /\ y[3] = d
  <2>1. i + 1 \in Nat \ {0}
    BY <1>2, ProcessAssumption DEF Slot
  <2> QED
    BY <1>2, <2>1, FrameLife
<1> HIDE DEF i, d, y
<1>4. May(t, <<y>>) /\ Elements(<<y>>) = {y}
  BY <1>3, MayOne DEF MainNames
<1>5. PICK c : /\ Does(t, "put_cas", c) /\ Elements(c) \subseteq {y}
               /\ IF Elements(c) = {} THEN cache[i] = Null /\ cache' = [cache EXCEPT ![i] = d]
                                      ELSE UNCHANGED cache
  <2>1. CASE cache[i] = Null /\ cache' = [cache EXCEPT ![i] = d] /\ Then(t, <<>>)
    <3>1. Does(t, "put_cas", <<>>)
      BY <1>1, <2>1, MayNone, NowThen
    <3> QED
      BY <2>1, <3>1, MayNone
  <2>2. CASE UNCHANGED cache /\ Then(t, <<y>>)
    <3>1. Closed("put_cas", y[1])
      BY <1>3 DEF Closed, CountNames, DoneNames, MessageNames
    <3>2. Does(t, "put_cas", <<y>>)
      BY <1>1, <1>4, <2>2, <3>1, NowThen
    <3> QED
      BY <1>4, <2>2, <3>2
  <2> QED
    BY <1>1, <2>1, <2>2
<1>6. StatsTypeOK /\ LifeTypeOK
  BY TypeParts DEF IInv
<1>7. StatsTypeOK' /\ LifeTypeOK'
  BY <1>1, <1>2, <1>5, <1>6 DEF StatsTypeOK, LifeTypeOK
<1>8. /\ \A e : (InHand(t, e) <=> e = d) /\ (InHand(t, e)' <=> e = d /\ Elements(c) # {})
      /\ \A u \in Thread \ {t} : \A e : InHand(u, e)' <=> InHand(u, e)
  <2>1. \A e : HandStep(Head(todo[t]), e) <=> e = d
    BY <1>2 DEF HandStep
  <2>2. \A e : (\E s \in Elements(c) : HandStep(s, e)) <=> e = d /\ Elements(c) # {}
    BY <1>3, <1>5 DEF HandStep
  <2> QED
    BY <1>5, <2>1, <2>2, OneHand DEF MoveNames, HandNames
<1>9. \A e \in Td : PlaceInv(e)'
  <2> TAKE e \in Td
  <2>1. PlaceInv(e) /\ e # Null
    BY <1>1, Heaps DEF DataInv
  <2>2. CASE Elements(c) # {}
    <3>1. \A u \in Thread : InHand(u, e)' <=> InHand(u, e)
      BY <1>8, <2>2
    <3>2. Places(e)' = Places(e)
      BY <1>1, <1>5, <2>2, <3>1 DEF Places
    <3> QED
      BY <1>1, <2>1, <3>2, PlaceKept
  <2>3. Elements(c) = {} => \A j \in Slot : cache'[j] = IF j = i THEN d ELSE cache[j]
    BY <1>5, <1>6 DEF LifeTypeOK
  <2>4. CASE e # d /\ Elements(c) = {}
    <3>1. \A u \in Thread : InHand(u, e)' <=> InHand(u, e)
      BY <1>8, <2>4
    <3>2. \A j \in Slot : cache'[j] = e <=> cache[j] = e
      BY <1>5, <2>1, <2>3, <2>4
    <3>3. Places(e)' = Places(e)
      BY <1>1, <3>1, <3>2 DEF Places
    <3> QED
      BY <1>1, <2>1, <3>3, PlaceKept
  <2>5. CASE e = d /\ Elements(c) = {}
    <3>1. /\ <<"hand", t>> \in Places(e) /\ \A j \in Slot : cache[j] # e
          /\ \A u \in Thread : default[u] # e /\ (InHand(u, e) => u = t)
      <4>1. InHand(t, e)
        BY <1>8, <2>5
      <4> QED
        BY <2>1, <4>1, OnlyHand
    <3>2. \A u \in Thread : ~InHand(u, e)'
      BY <1>8, <2>5, <3>1
    <3>3. \A j \in Slot : cache'[j] = e <=> j = i
      BY <2>3, <2>5, <3>1
    <3>4. Places(e)' = {<<"cache", i>>}
      BY <1>1, <1>2, <3>1, <3>2, <3>3 DEF Places
    <3> QED
      BY <1>1, <2>1, <3>1, <3>4, PlaceMoved
  <2> QED
    BY <2>2, <2>4, <2>5
<1>10. \A u \in Thread : HeapInv(u)'
  <2>1. \A s \in Elements(c) : DataStep(t, s)'
    BY <1>3, <1>5 DEF DataStep, OwnNames
  <2> QED
    BY <1>1, <1>5, <2>1, HeapsStay
<1> QED
  <2>1. \A s \in Elements(c) : s[1] \in LifeNames
    BY <1>3, <1>5 DEF LifeNames, DataNames
  <2>2. "put_cas" \notin ReadNames \cup BootNames /\ "put_cas" \notin EarlyNames
    BY DEF ReadNames, BootNames, EarlyNames
  <2>3. StartSame /\ UNCHANGED <<messageVars, program>> /\ DataInv'
    BY <1>1, <1>9, <1>10 DEF StartSame, DataInv
  <2> QED
    BY <1>5, <1>7, <2>1, <2>2, <2>3, Lifely

LEMMA DoDrainTake == ASSUME IInv, NEW t \in Thread, DrainTake(t) PROVE IInv'
<1> DEFINE i == Arg(t, 1)
           d == cache[i]
<1>1. /\ Now(t, "drain_take") /\ StackInv /\ BootInv /\ DataInv /\ Then(t, <<>>)
      /\ cache' = [cache EXCEPT ![i] = Null] /\ IF d = Null THEN UNCHANGED mapped ELSE Unmap(d)
      /\ UNCHANGED <<once, tlsDone, key, mainId, exited, threads, owner, memid, life, program,
                     loaded, pages, drift, messageVars, default, keyValue, total, local>>
  BY DEF DrainTake, Exchanged, processVars, lifeVars, statVars, IInv
<1>2. i \in Slot
  BY <1>1, NowTyped DEF Arg, Typed
<1>3. StatsTypeOK /\ LifeTypeOK
  BY TypeParts DEF IInv
<1>4. d \in Td \cup {Null}
  BY <1>2, <1>3 DEF LifeTypeOK
<1>5. \A j \in Slot : cache'[j] = IF j = i THEN Null ELSE cache[j]
  BY <1>1, <1>3 DEF LifeTypeOK
<1>6. Does(t, "drain_take", <<>>) /\ Elements(<<>>) = {}
  BY <1>1, MayNone, NowThen
<1>7. /\ mapped' \subseteq Td /\ \A e \in Td \ {d} : e \in mapped' <=> e \in mapped
      /\ d # Null => d \notin mapped' \/ memid'[d] = "none"
  <2>1. CASE d = Null
    BY <1>1, <1>3, <2>1 DEF LifeTypeOK
  <2>2. CASE d # Null
    BY <1>1, <1>3, <1>4, <2>2, Unmapped
  <2> QED
    BY <2>1, <2>2
<1>8. StatsTypeOK' /\ LifeTypeOK'
  BY <1>1, <1>2, <1>3, <1>7 DEF StatsTypeOK, LifeTypeOK
<1>9. \A u \in Thread : \A e : InHand(u, e)' <=> InHand(u, e)
  BY <1>6, HandKept DEF Does, Avoids, NotAt
<1>10. \A e \in Td : PlaceInv(e)'
  <2> TAKE e \in Td
  <2>1. PlaceInv(e) /\ e # Null
    BY <1>1, Heaps DEF DataInv
  <2>2. CASE e # d
    <3>1. \A j \in Slot : cache'[j] = e <=> cache[j] = e
      BY <1>5, <2>1, <2>2
    <3>2. Places(e)' = Places(e)
      BY <1>1, <1>9, <3>1 DEF Places
    <3> QED
      BY <1>1, <1>7, <2>1, <2>2, <3>2, PlaceKept
  <2>3. CASE e = d
    <3>1. /\ \A j \in Slot : cache[j] = e => j = i
          /\ \A u \in Thread : default[u] # e /\ ~InHand(u, e)
      BY <1>2, <2>1, <2>3, OnlyCache
    <3>2. \A j \in Slot : cache'[j] # e
      BY <1>5, <2>1, <3>1
    <3>3. Places(e)' = {}
      BY <1>1, <1>9, <3>1, <3>2 DEF Places
    <3> QED
      BY <1>7, <2>1, <2>3, <3>3, PlaceGone
  <2> QED
    BY <2>2, <2>3
<1>11. \A u \in Thread : HeapInv(u)'
  BY <1>1, <1>6, HeapsStay
<1> QED
  <2>1. "drain_take" \notin ReadNames \cup BootNames /\ "drain_take" \notin EarlyNames
    BY DEF ReadNames, BootNames, EarlyNames
  <2>2. StartSame /\ UNCHANGED <<messageVars, program>> /\ DataInv'
    BY <1>1, <1>10, <1>11 DEF StartSame, DataInv
  <2> QED
    BY <1>6, <1>8, <2>1, <2>2, Lifely

LEMMA DoThreadDone == ASSUME IInv, NEW t \in Thread, ThreadDone(t) PROVE IInv'
<1> DEFINE h == Arg(t, 1)
           x == <<"count", -1>>
           y == <<"stat", "threads", -1>>
           z == <<"heap_done", h>>
           c == <<x, y, z>>
<1>1. /\ Now(t, "thread_done") /\ StackInv /\ BootInv /\ DataInv
      /\ Then(t, IF h = HeapEmpty THEN <<>> ELSE c) /\ drift' = (drift \/ h = HeapMain)
      /\ UNCHANGED <<once, tlsDone, key, mainId, exited, threads, owner, cache, mapped, memid, life,
                     program, loaded, pages, messageVars, default, keyValue, total, local>>
  BY DEF ThreadDone, processVars, tdVars, statVars, IInv
<1>2. h \in DefaultHeap /\ Head(todo[t]) \in Ahead(t) /\ Head(todo[t])[1] = "thread_done"
      /\ Head(todo[t])[2] = h
  BY <1>1, NowTyped DEF Arg, Typed
<1>3. h = default[t]
  BY <1>1, <1>2 DEF DataInv, HeapInv, DataStep
<1>4. /\ x \in Frame /\ y \in Frame /\ (h # HeapEmpty => z \in Frame)
      /\ x[1] = "count" /\ y[1] = "stat" /\ z[1] = "heap_done" /\ z[2] = h
  BY <1>2, FrameStats, Heaps DEF Stat
<1> HIDE DEF h, x, y, z
<1>5. h # HeapEmpty => May(t, c) /\ Elements(c) = {x, y, z}
  <2> SUFFICES ASSUME h # HeapEmpty PROVE May(t, <<x, y, z>>) /\ Elements(<<x, y, z>>) = {x, y, z}
    OBVIOUS
  <2>1. Over(y, x) /\ Over(z, x) /\ Over(z, y)
    BY <1>4 DEF Over, HeadNames, CountNames
  <2>2. {x[1], y[1], z[1]} \cap MainNames = {}
    BY <1>4 DEF MainNames
  <2> QED
    BY <1>4, <2>1, <2>2, MayThree
<1> HIDE DEF c
<1>6. PICK r : /\ Does(t, "thread_done", r) /\ Elements(r) \subseteq {x, y, z}
               /\ IF h = HeapEmpty THEN r = <<>> ELSE z \in Elements(r)
  <2>1. CASE h = HeapEmpty
    <3>1. Then(t, <<>>)
      BY <1>1, <2>1
    <3> QED
      BY <1>1, <2>1, <3>1, MayNone, NowThen
  <2>2. CASE h # HeapEmpty
    <3>1. Then(t, c)
      BY <1>1, <2>2
    <3>2. \A s \in {x, y, z} : Closed("thread_done", s[1])
      BY <1>4 DEF Closed, CountNames, DoneNames, MessageNames
    <3>3. Does(t, "thread_done", c)
      BY <1>1, <1>5, <2>2, <3>1, <3>2, NowThen
    <3> QED
      BY <1>5, <2>2, <3>3
  <2> QED
    BY <2>1, <2>2
<1>7. StatsTypeOK' /\ LifeTypeOK'
  <2>1. StatsTypeOK /\ LifeTypeOK
    BY TypeParts DEF IInv
  <2> QED
    BY <1>1, <2>1 DEF StatsTypeOK, LifeTypeOK
<1>8. DataInv'
  <2>1. \A s \in Elements(r) : DataStep(t, s)'
    BY <1>1, <1>3, <1>4, <1>6 DEF DataStep, OwnNames
  <2>2. Ending(t)' \/ default[t] \notin Td
    <3>1. h # HeapEmpty => z \in Ahead(t)'
      BY <1>6, DoesAhead
    <3> QED
      BY <1>3, <1>4, <3>1, Heaps DEF Ending, Has
  <2>3. /\ Stepped(t, r) /\ ~Idle(t) /\ Avoids(r, {"fill", "adopt", "put", "put_cas"})
        /\ NotAt(t, {"fill", "adopt", "put", "put_cas", "destructors"})
    BY <1>4, <1>6 DEF Does, Avoids, NotAt
  <2> QED
    BY <1>1, <2>1, <2>2, <2>3, DataMoved
<1> QED
  <2>1. \A s \in Elements(r) : s[1] \in LifeNames
    BY <1>4, <1>6 DEF LifeNames, DataNames, CountNames
  <2>2. "thread_done" \notin ReadNames \cup BootNames
    BY DEF ReadNames, BootNames
  <2>3. t = Main /\ ~once /\ ~loaded => r = <<>>
    BY <1>1, <1>3, <1>6 DEF BootInv
  <2>4. StartSame /\ UNCHANGED <<messageVars, program>>
    BY <1>1 DEF StartSame
  <2>5. default' = default
    BY <1>1
  <2> QED
    BY <1>6, <1>7, <1>8, <2>1, <2>2, <2>3, <2>4, <2>5, Lifely

LEMMA DoHeapDone == ASSUME IInv, NEW t \in Thread, HeapDone(t) PROVE IInv'
<1> DEFINE h == Arg(t, 1)
           g == LeftWith(t)
           x == <<"merge", h>>
           y == <<"put", 1, h>>
<1>1. /\ Now(t, "heap_done") /\ StackInv /\ BootInv /\ DataInv
      /\ default' = [default EXCEPT ![t] = g]
      /\ keyValue' = [keyValue EXCEPT ![t] = IF key THEN g ELSE @]
      /\ Then(t, <<x>> \o (IF h = HeapMain THEN <<>> ELSE <<y>>))
      /\ UNCHANGED <<once, tlsDone, key, mainId, exited, threads, owner, cache, mapped, memid, life,
                     program, loaded, pages, drift, messageVars, total, local>>
  BY DEF HeapDone, SetDefault, processVars, tdVars, lifeVars, statVars, IInv
<1>2. /\ h \in Tld /\ Head(todo[t]) \in Ahead(t) /\ Head(todo[t])[1] = "heap_done"
      /\ Head(todo[t])[2] = h /\ ~Idle(t)
  BY <1>1, NowTyped DEF Arg, Typed
<1>3. h = default[t] /\ HeapInv(t)
  BY <1>1, <1>2 DEF DataInv, HeapInv, DataStep
<1>4. g = (IF t = Main THEN HeapMain ELSE HeapEmpty) /\ g \notin Td /\ g \in DefaultHeap
  BY <1>1, <1>2, MainThread, Heaps DEF LeftWith
<1>5. h \in Td \/ h = HeapMain
  BY <1>2, ProcessAssumption
<1>6. /\ x \in Frame /\ (h # HeapMain => y \in Frame)
      /\ x[1] = "merge" /\ y[1] = "put" /\ y[3] = h
  BY <1>2, <1>5, FrameStats, FrameLife
<1> HIDE DEF h, g, x, y
<1>7. PICK c : Does(t, "heap_done", c) /\ Elements(c) = IF h = HeapMain THEN {x} ELSE {x, y}
  <2> DEFINE v == <<x>>
             w == <<y>>
             n == <<>>
  <2>1. May(t, v) /\ Elements(v) = {x}
    BY <1>6, MayOne DEF MainNames
  <2>2. May(t, n) /\ Elements(n) = {}
    BY MayNone
  <2>3. h # HeapMain => May(t, w) /\ Elements(w) = {y}
    BY <1>6, MayOne DEF MainNames
  <2>4. Over(y, x)
    BY <1>6 DEF Over, HeadNames, CountNames
  <2>5. \A s \in {x, y} : Closed("heap_done", s[1])
    BY <1>6 DEF Closed, CountNames, DoneNames, MessageNames
  <2>6. Then(t, v \o (IF h = HeapMain THEN n ELSE w))
    BY <1>1
  <2> HIDE DEF v, w, n
  <2>7. CASE h = HeapMain
    <3>1. Then(t, v \o n)
      BY <2>6, <2>7
    <3>2. May(t, v \o n) /\ Elements(v \o n) = {x}
      BY <2>1, <2>2, MayJoin
    <3>3. Does(t, "heap_done", v \o n)
      BY <1>1, <2>5, <3>1, <3>2, NowThen
    <3> QED
      BY <2>7, <3>2, <3>3
  <2>8. CASE h # HeapMain
    <3>1. Then(t, v \o w)
      BY <2>6, <2>8
    <3>2. May(t, v \o w) /\ Elements(v \o w) = {x, y}
      BY <2>1, <2>3, <2>4, <2>8, MayJoin
    <3>3. Does(t, "heap_done", v \o w)
      BY <1>1, <2>5, <3>1, <3>2, NowThen
    <3> QED
      BY <2>8, <3>2, <3>3
  <2> QED
    BY <2>7, <2>8
<1>8. StatsTypeOK /\ LifeTypeOK
  BY TypeParts DEF IInv
<1>9. /\ default'[t] = g /\ keyValue'[t] = (IF key THEN g ELSE keyValue[t])
      /\ \A u \in Thread \ {t} : default'[u] = default[u] /\ keyValue'[u] = keyValue[u]
  BY <1>1, <1>8 DEF LifeTypeOK
<1>10. StatsTypeOK' /\ LifeTypeOK'
  BY <1>1, <1>4, <1>8 DEF StatsTypeOK, LifeTypeOK
<1>11. /\ \A e : ~InHand(t, e) /\ (InHand(t, e)' <=> e = h /\ h # HeapMain)
       /\ \A u \in Thread \ {t} : \A e : InHand(u, e)' <=> InHand(u, e)
       /\ \A s \in Rest(t) : s[1] \notin HandNames \cup {"heap_done", "thread_done"}
  <2>1. \A e : ~HandStep(Head(todo[t]), e)
    BY <1>2 DEF HandStep
  <2>2. \A e : (\E s \in Elements(c) : HandStep(s, e)) <=> e = h /\ h # HeapMain
    BY <1>6, <1>7 DEF HandStep
  <2> QED
    BY <1>7, <2>1, <2>2, OneHand DEF MoveNames
<1>12. \A e \in Td : PlaceInv(e)'
  <2> TAKE e \in Td
  <2>1. PlaceInv(e) /\ e # HeapMain /\ e # HeapEmpty
    BY <1>1, Heaps DEF DataInv
  <2>2. CASE e # h
    <3>1. \A u \in Thread : (InHand(u, e)' <=> InHand(u, e)) /\ (default'[u] = e <=> default[u] = e)
      BY <1>3, <1>4, <1>9, <1>11, <2>1, <2>2
    <3>2. Places(e)' = Places(e)
      BY <1>1, <3>1 DEF Places
    <3> QED
      BY <1>1, <2>1, <3>2, PlaceKept
  <2>3. CASE e = h
    <3>1. /\ <<"heap", t>> \in Places(e) /\ \A j \in Slot : cache[j] # e
          /\ \A u \in Thread : ~InHand(u, e) /\ (default[u] = e => u = t)
      BY <1>3, <2>1, <2>3, OnlyHeap
    <3>2. \A u \in Thread : default'[u] # e /\ (InHand(u, e)' <=> u = t)
      BY <1>4, <1>9, <1>11, <2>1, <2>3, <3>1
    <3>3. Places(e)' = {<<"hand", t>>}
      BY <1>1, <3>1, <3>2 DEF Places
    <3> QED
      BY <1>1, <2>1, <3>1, <3>3, PlaceMoved
  <2> QED
    BY <2>2, <2>3
<1>13. /\ Ahead(t)' = Elements(c) \cup Rest(t) /\ Ahead(t) = {Head(todo[t])} \cup Rest(t)
       /\ ~Idle(t)' /\ \A s \in Rest(t) : s[1] \notin OwnNames
  <2>1. /\ Ahead(t)' = Elements(c) \cup Rest(t) /\ Ahead(t) = {Head(todo[t])} \cup Rest(t)
        /\ \A s \in Rest(t) : Over(s, Head(todo[t]))
    BY <1>2, <1>7 DEF Does, Stepped
  <2>2. ~Idle(t)'
    <3>1. x \in Ahead(t)'
      BY <1>7, <2>1
    <3> QED
      BY <3>1 DEF Idle, Ahead
  <2>3. \A s \in Rest(t) : s[1] \notin OwnNames
    BY <1>11, <2>1 DEF Over, HeadNames, OwnNames, HandNames
  <2> QED
    BY <2>1, <2>2, <2>3
<1>14. HeapInv(t)'
  <2>1. \A s \in Ahead(t)' : DataStep(t, s)'
    <3>1. \A s \in Elements(c) : DataStep(t, s)'
      BY <1>6, <1>7 DEF DataStep, OwnNames
    <3>2. \A s \in Rest(t) : DataStep(t, s)'
      BY <1>1, <1>3, <1>4, <1>9, <1>11, <1>13 DEF HeapInv, DataStep
    <3> QED
      BY <1>13, <3>1, <3>2
  <2>2. life[t] # "runs" => Has(t, "destructors")'
    <3>1. Has(t, "destructors") => Has(t, "destructors")'
      BY <1>7, DoesAhead
    <3> QED
      BY <1>2, <1>3, <3>1 DEF HeapInv
  <2> QED
    BY <1>1, <1>3, <1>4, <1>9, <1>13, <2>1, <2>2, Heaps DEF HeapInv
<1>15. \A u \in Thread : HeapInv(u)'
  <2> TAKE u \in Thread
  <2>1. HeapInv(u) /\ Stepped(t, c)
    BY <1>1, <1>7 DEF DataInv, Does
  <2>2. default[u] \in Td => owner[default[u]] = u
    BY <2>1 DEF HeapInv
  <2>3. \A s \in Ahead(u) : s[1] = "adopt" => owner[s[2]] = u
    BY <2>1 DEF HeapInv, DataStep
  <2>4. CASE u # t
    BY <1>1, <1>9, <2>1, <2>2, <2>3, <2>4, HeapKept
  <2> QED
    BY <1>14, <2>4
<1> QED
  <2>1. \A s \in Elements(c) : s[1] \in LifeNames
    BY <1>6, <1>7 DEF LifeNames, DataNames, CountNames
  <2>2. "heap_done" \notin ReadNames \cup BootNames /\ "heap_done" \notin EarlyNames
    BY DEF ReadNames, BootNames, EarlyNames
  <2>3. StartSame /\ UNCHANGED <<messageVars, program>> /\ DataInv'
    BY <1>1, <1>12, <1>15 DEF StartSame, DataInv
  <2> QED
    BY <1>7, <1>10, <2>1, <2>2, <2>3, Lifely

LEMMA DoThreadExit == ASSUME IInv, NEW t \in Thread, ThreadExit(t) PROVE IInv'
<1> DEFINE a == <<"destructors", 1>>
<1>1. /\ StackInv /\ BootInv /\ DataInv /\ life[t] = "runs" /\ (t = Main => loaded)
      /\ Call(t, <<a>>) /\ Idle(t) /\ life' = [life EXCEPT ![t] = "over"]
      /\ UNCHANGED <<once, tlsDone, key, mainId, exited, threads, owner, cache, mapped, memid, program,
                     loaded, pages, drift, messageVars, default, keyValue, total, local>>
  BY DEF ThreadExit, Call, processVars, tdVars, statVars, IInv
<1>2. a \in Frame /\ a[1] = "destructors" /\ a[2] = 1
  BY FrameLife
<1> HIDE DEF a
<1>3. May(t, <<a>>) /\ Elements(<<a>>) = {a}
  BY <1>2, MayOne DEF MainNames
<1>4. Stepped(t, <<a>>)
  BY <1>1, <1>3, CallStepped
<1>5. Ahead(t) = {} /\ Ahead(t)' = {a} /\ ~Idle(t)'
  <2>1. Ahead(t) = {} /\ Ahead(t)' = {a}
    BY <1>1, <1>3, <1>4 DEF Stepped
  <2>2. ~Idle(t)'
    <3>1. a \in Ahead(t)'
      BY <2>1
    <3> QED
      BY <3>1 DEF Idle, Ahead
  <2> QED
    BY <2>1, <2>2
<1>6. StatsTypeOK /\ LifeTypeOK
  BY TypeParts DEF IInv
<1>7. life'[t] = "over" /\ \A u \in Thread \ {t} : life'[u] = life[u]
  BY <1>1, <1>6 DEF LifeTypeOK
<1>8. StatsTypeOK' /\ LifeTypeOK'
  BY <1>1, <1>6 DEF StatsTypeOK, LifeTypeOK
<1>9. Carried
  <2>1. \A s \in Elements(<<a>>) : s[1] \in LifeNames
    BY <1>2, <1>3 DEF LifeNames, DataNames
  <2>2. NotAt(t, ReadNames)
    BY <1>1 DEF NotAt
  <2>3. \A u \in Thread \ {Main} : life'[u] = life[u] \/ life[u] # "unborn"
    BY <1>1, <1>7
  <2> QED
    BY <1>1, <1>4, <2>1, <2>2, <2>3, Carry
<1>10. BootInv'
  <2>1. NotAt(t, BootNames) /\ \A u \in Thread : life'[u] = "unborn" \/ life[u] # "unborn"
    BY <1>1, <1>7 DEF NotAt
  <2>2. life[t] # "unborn"
    BY <1>1
  <2> QED
    BY <1>1, <1>4, <2>1, <2>2, BootKept, Heaps
<1>11. \A e \in Td : PlaceInv(e)'
  <2>1. \A u \in Thread : \A e : InHand(u, e)' <=> InHand(u, e)
    BY <1>1, <1>2, <1>3, <1>4, HandKept DEF Avoids, NotAt
  <2> QED
    BY <1>1, <2>1, PlacesKept, PlaceKept DEF DataInv
<1>12. \A u \in Thread : HeapInv(u)'
  <2> TAKE u \in Thread
  <2>1. HeapInv(u)
    BY <1>1 DEF DataInv
  <2>2. default[u] \in Td => owner[default[u]] = u
    BY <2>1 DEF HeapInv
  <2>3. \A s \in Ahead(u) : s[1] = "adopt" => owner[s[2]] = u
    BY <2>1 DEF HeapInv, DataStep
  <2>4. CASE u # t
    BY <1>1, <1>4, <1>7, <2>1, <2>2, <2>3, <2>4, HeapKept
  <2>5. CASE u = t
    <3>1. ~Ending(t)
      BY <1>5 DEF Ending, Has
    <3>2. DataStep(t, a)'
      BY <1>2, <1>7 DEF DataStep, OwnNames
    <3>3. Has(t, "destructors")'
      BY <1>2, <1>5 DEF Has
    <3> QED
      BY <1>1, <1>5, <2>1, <2>5, <3>1, <3>2, <3>3 DEF HeapInv
  <2> QED
    BY <2>4, <2>5
<1> QED
  BY <1>8, <1>9, <1>10, <1>11, <1>12, TogetherHolds DEF Together, DataInv

LEMMA DoDestructors == ASSUME IInv, NEW t \in Thread, Destructors(t) PROVE IInv'
<1> DEFINE n == Arg(t, 1)
           h == keyValue[t]
           goOn == h # Null /\ n <= Iterations
           x == <<"thread_done", h>>
           m == <<"malloc">>
           y == <<"destructors", n + 1>>
           c == (<<x>> \o <<m>>) \o <<y>>
           d == (<<x>> \o <<>>) \o <<y>>
<1>1. /\ Now(t, "destructors") /\ StackInv /\ BootInv /\ DataInv
      /\ keyValue' = [keyValue EXCEPT ![t] = IF goOn THEN Null ELSE @]
      /\ \/ ~goOn /\ Then(t, <<>>)
         \/ goOn /\ Then(t, d)
         \/ goOn /\ n = 1 /\ Then(t, c)
      /\ UNCHANGED <<once, tlsDone, key, mainId, exited, threads, owner, cache, mapped, memid, life,
                     program, loaded, pages, drift, messageVars, default, total, local>>
  BY DEF Destructors, processVars, tdVars, lifeVars, statVars, IInv
<1>2. /\ n \in Nat \ {0} /\ Head(todo[t]) \in Ahead(t) /\ Head(todo[t])[1] = "destructors"
      /\ Head(todo[t])[2] = n
  BY <1>1, NowTyped DEF Arg, Typed
<1>3. HeapInv(t) /\ h \in {Null, default[t]} /\ DataStep(t, Head(todo[t]))
  BY <1>1, <1>2 DEF DataInv, HeapInv
<1>4. StatsTypeOK /\ LifeTypeOK
  BY TypeParts DEF IInv
<1>5. /\ h # Null => x \in Frame
      /\ m \in Frame /\ y \in Frame /\ x[1] = "thread_done" /\ x[2] = h /\ m[1] = "malloc"
      /\ y[1] = "destructors" /\ y[2] = n + 1
  <2>1. h \in DefaultHeap \cup {Null} /\ n + 1 \in Nat \ {0}
    BY <1>2, <1>4 DEF LifeTypeOK
  <2> QED
    BY <2>1, FrameLife
<1>6. Elements(c) = {x, m, y} /\ Elements(d) = {x, y}
  BY DEF Elements
<1>7. goOn => May(t, d) /\ (n = 1 => May(t, c))
  <2> SUFFICES ASSUME goOn PROVE May(t, d) /\ (n = 1 => May(t, c))
    OBVIOUS
  <2> DEFINE vx == <<x>>
             vm == <<m>>
             vy == <<y>>
             v == <<>>
  <2>0. x \in Frame
    BY <1>5
  <2> HIDE DEF n, h, goOn, x, m, y
  <2>1. Over(m, x) /\ Over(y, x) /\ (n = 1 => Over(y, m))
    BY <1>2, <1>5 DEF Over, HeadNames, DoneNames
  <2>2. /\ May(t, vx) /\ Elements(vx) = {x} /\ May(t, vm) /\ Elements(vm) = {m}
        /\ May(t, vy) /\ Elements(vy) = {y}
    BY <1>5, <2>0, MayOne DEF MainNames
  <2>3. May(t, v) /\ Elements(v) = {}
    BY MayNone
  <2> HIDE DEF vx, vm, vy, v
  <2>4. May(t, vx \o v) /\ Elements(vx \o v) = {x}
    BY <2>2, <2>3, MayJoin
  <2>5. May(t, vx \o vm) /\ Elements(vx \o vm) = {x, m}
    BY <2>1, <2>2, MayJoin
  <2>6. May(t, (vx \o v) \o vy)
    BY <2>1, <2>2, <2>4, MayJoin
  <2>7. n = 1 => May(t, (vx \o vm) \o vy)
    BY <2>1, <2>2, <2>5, MayJoin
  <2> QED
    BY <2>6, <2>7 DEF v, vx, vm, vy
<1> HIDE DEF n, h, goOn, x, m, y, c, d
<1>8. PICK r : /\ Does(t, "destructors", r) /\ Elements(r) \subseteq {x, m, y}
               /\ IF goOn THEN {x, y} \subseteq Elements(r) ELSE Elements(r) = {} /\ r = <<>>
  <2>1. CASE ~goOn /\ Then(t, <<>>)
    BY <1>1, <2>1, MayNone, NowThen
  <2>2. \A s \in {x, m, y} : Closed("destructors", s[1])
    BY <1>5 DEF Closed, CountNames, DoneNames, MessageNames
  <2>3. CASE goOn /\ Then(t, d)
    <3>1. Does(t, "destructors", d)
      BY <1>1, <1>6, <1>7, <2>2, <2>3, NowThen
    <3> QED
      BY <1>6, <2>3, <3>1
  <2>4. CASE goOn /\ n = 1 /\ Then(t, c)
    <3>1. Does(t, "destructors", c)
      BY <1>1, <1>6, <1>7, <2>2, <2>4, NowThen
    <3> QED
      BY <1>6, <2>4, <3>1
  <2> QED
    BY <1>1, <2>1, <2>3, <2>4
<1>9. /\ keyValue'[t] = IF goOn THEN Null ELSE h
      /\ \A u \in Thread \ {t} : keyValue'[u] = keyValue[u]
  BY <1>1, <1>4 DEF LifeTypeOK, h
<1>10. StatsTypeOK' /\ LifeTypeOK'
  BY <1>1, <1>4 DEF StatsTypeOK, LifeTypeOK
<1>11. \A e \in Td : PlaceInv(e)'
  <2>1. \A u \in Thread : \A e : InHand(u, e)' <=> InHand(u, e)
    BY <1>5, <1>8, HandKept DEF Does, Avoids, NotAt
  <2> QED
    BY <1>1, <2>1, PlacesKept, PlaceKept DEF DataInv
<1>12. Ahead(t) = {Head(todo[t])} /\ Ahead(t)' = Elements(r) /\ (Idle(t)' <=> r = <<>>)
  <2>1. /\ Ahead(t)' = Elements(r) \cup Rest(t) /\ Ahead(t) = {Head(todo[t])} \cup Rest(t)
        /\ \A s \in Rest(t) : Over(s, Head(todo[t]))
        /\ Idle(t)' <=> r = <<>> /\ Rest(t) = {}
    BY <1>8 DEF Does, Stepped
  <2>2. Rest(t) = {}
    BY <1>2, <2>1 DEF Over
  <2> QED
    BY <2>1, <2>2
<1>13. HeapInv(t)'
  <2>1. life[t] # "runs" /\ ~Ending(t) /\ (n > 2 => default[t] \notin Td)
    <3>1. ~Ending(t)
      BY <1>2, <1>12 DEF Ending, Has
    <3> QED
      BY <1>2, <1>3, <3>1 DEF DataStep
  <2>2. CASE goOn
    <3>1. x \in Ahead(t)' /\ y \in Ahead(t)'
      BY <1>8, <1>12, <2>2
    <3>2. Ending(t)' /\ Has(t, "destructors")' /\ ~Idle(t)'
      BY <1>5, <3>1 DEF Ending, Has, Idle, Ahead
    <3>3. h = default[t]
      BY <1>3, <2>2 DEF goOn
    <3>4. \A s \in {x, m, y} : DataStep(t, s)'
      BY <1>1, <1>5, <2>1, <3>2, <3>3 DEF DataStep, OwnNames
    <3> QED
      BY <1>1, <1>3, <1>8, <1>9, <1>12, <2>2, <3>2, <3>4 DEF HeapInv
  <2>3. CASE ~goOn
    <3>1. default[t] \notin Td
      <4>1. CASE h = Null
        <5>1. Null \notin Td
          BY Heaps
        <5> QED
          BY <1>3, <2>1, <4>1, <5>1 DEF HeapInv, h
      <4>2. CASE h # Null
        <5>1. n > 2
          BY <1>2, <2>3, <4>2, ProcessAssumption DEF goOn
        <5> QED
          BY <2>1, <5>1
      <4> QED
        BY <4>1, <4>2
    <3>2. Ahead(t)' = {} /\ Idle(t)'
      BY <1>8, <1>12, <2>3
    <3> QED
      BY <1>1, <1>3, <1>9, <2>3, <3>1, <3>2 DEF HeapInv, h
  <2> QED
    BY <2>2, <2>3
<1>14. \A u \in Thread : HeapInv(u)'
  <2> TAKE u \in Thread
  <2>1. HeapInv(u) /\ Stepped(t, r)
    BY <1>1, <1>8 DEF DataInv, Does
  <2>2. default[u] \in Td => owner[default[u]] = u
    BY <2>1 DEF HeapInv
  <2>3. \A s \in Ahead(u) : s[1] = "adopt" => owner[s[2]] = u
    BY <2>1 DEF HeapInv, DataStep
  <2>4. CASE u # t
    BY <1>1, <1>9, <2>1, <2>2, <2>3, <2>4, HeapKept
  <2> QED
    BY <1>13, <2>4
<1> QED
  <2>1. \A s \in Elements(r) : s[1] \in LifeNames
    BY <1>5, <1>8 DEF LifeNames, DataNames
  <2>2. "destructors" \notin ReadNames \cup BootNames /\ "destructors" \notin EarlyNames
    BY DEF ReadNames, BootNames, EarlyNames
  <2>3. StartSame /\ UNCHANGED <<messageVars, program>> /\ DataInv'
    BY <1>1, <1>11, <1>14 DEF StartSame, DataInv
  <2> QED
    BY <1>8, <1>10, <2>1, <2>2, <2>3, Lifely

\* Once the main thread has loaded the program, every option has been looked for.
LEMMA IdleReady == ASSUME OptionsInv, loaded, Idle(Main) PROVE Ready
<1>1. Ahead(Main) = {}
  BY DEF Idle, Ahead
<1>2. \A n, N, o : ~Has(Main, n) /\ ~HasFor(Main, N, o)
  BY <1>1 DEF Has, HasFor
<1> QED
  BY <1>2 DEF OptionsInv, LoadInv, Ready

LEMMA DoThreadStart == ASSUME IInv, NEW t \in Thread, ThreadStart(t) PROVE IInv'
<1>1. /\ StackInv /\ BootInv /\ DataInv /\ OptionsInv /\ t # Main /\ Idle(t) /\ life[t] # "runs"
      /\ default[Main] = HeapMain /\ Idle(Main) /\ (loaded \/ "early" \in program[t])
      /\ life' = [life EXCEPT ![t] = "runs"]
      /\ default' = [default EXCEPT ![t] = HeapEmpty]
      /\ keyValue' = [keyValue EXCEPT ![t] = Null]
      /\ UNCHANGED <<todo, once, tlsDone, key, mainId, exited, threads, owner, cache, mapped, memid,
                     program, loaded, pages, drift, messageVars, total, local>>
  BY DEF ThreadStart, processVars, tdVars, statVars, IInv
<1>2. Stepped(t, <<>>) /\ Elements(<<>>) = {}
  BY <1>1, StillStepped, MayNone
<1>3. StatsTypeOK /\ LifeTypeOK
  BY TypeParts DEF IInv
<1>4. /\ life'[t] = "runs" /\ default'[t] = HeapEmpty /\ keyValue'[t] = Null
      /\ \A u \in Thread \ {t} : /\ life'[u] = life[u] /\ default'[u] = default[u]
                                 /\ keyValue'[u] = keyValue[u]
  BY <1>1, <1>3 DEF LifeTypeOK
<1>5. StatsTypeOK' /\ LifeTypeOK'
  BY <1>1, <1>3, Heaps DEF StatsTypeOK, LifeTypeOK
<1>6. Carried
  <2>1. NotAt(t, ReadNames)
    BY <1>1 DEF NotAt
  <2>2. \A u \in Thread \ {Main} :
           life'[u] = life[u] \/ life[u] # "unborn" \/ "early" \in program[u] \/ Ready
    BY <1>1, <1>4, IdleReady
  <2> QED
    BY <1>1, <1>2, <2>1, <2>2, Carry
<1>7. BootInv'
  <2>1. \A n : ~Has(Main, n)
    BY <1>1 DEF Has, Idle, Ahead
  <2>2. once \/ loaded
    BY <1>1, Heaps DEF BootInv
  <2>3. Started
    BY <1>1, <2>1, <2>2 DEF BootInv, Started
  <2>4. \A u \in Thread : Ahead(u)' = Ahead(u) /\ (Idle(u)' <=> Idle(u))
    BY <1>1 DEF Ahead, Idle
  <2> QED
    BY <1>1, <2>2, <2>3, <2>4 DEF BootInv, Started
<1>8. default[t] \notin Td
  BY <1>1 DEF DataInv, HeapInv
<1>9. \A e \in Td : PlaceInv(e)'
  <2> TAKE e \in Td
  <2>1. PlaceInv(e) /\ e # HeapEmpty
    BY <1>1, Heaps DEF DataInv
  <2>2. \A u \in Thread : (InHand(u, e)' <=> InHand(u, e)) /\ (default'[u] = e <=> default[u] = e)
    <3>1. \A u \in Thread : InHand(u, e)' <=> InHand(u, e)
      BY <1>1 DEF InHand, Ahead
    <3> QED
      BY <1>4, <1>8, <2>1, <3>1
  <2>3. Places(e)' = Places(e)
    BY <1>1, <2>2 DEF Places
  <2> QED
    BY <1>1, <2>1, <2>3, PlaceKept
<1>10. \A u \in Thread : HeapInv(u)'
  <2> TAKE u \in Thread
  <2>1. HeapInv(u)
    BY <1>1 DEF DataInv
  <2>2. default[u] \in Td => owner[default[u]] = u
    BY <2>1 DEF HeapInv
  <2>3. \A s \in Ahead(u) : s[1] = "adopt" => owner[s[2]] = u
    BY <2>1 DEF HeapInv, DataStep
  <2>4. CASE u # t
    BY <1>1, <1>2, <1>4, <2>1, <2>2, <2>3, <2>4, HeapKept
  <2>5. CASE u = t
    <3>1. Ahead(t)' = {}
      BY <1>1 DEF Idle, Ahead
    <3> QED
      BY <1>4, <2>5, <3>1, Heaps DEF HeapInv
  <2> QED
    BY <2>4, <2>5
<1> QED
  BY <1>5, <1>6, <1>7, <1>9, <1>10, TogetherHolds DEF Together, DataInv

\* A call that the program makes.
LEMMA Calls ==
    ASSUME IInv, NEW t \in Thread, NEW c, Stepped(t, c), Idle(t), life[t] = "runs",
           StartSame, DataSame, UNCHANGED <<messageVars, program>>, StatsTypeOK', LifeTypeOK',
           \A s \in Elements(c) : /\ \/ s[1] \in {"malloc", "thread_done", "collect"}
                                     \/ s[1] \in {"merge", "stat"} /\ default[t] # HeapEmpty
                                     \/ s[1] = "process_done" /\ Ready
                                  /\ s[1] = "thread_done" => s[2] = default[t]
    PROVE  IInv'
<1>1. /\ StackInv /\ BootInv /\ DataInv
      /\ UNCHANGED <<once, tlsDone, key, mainId, loaded, life, default, keyValue, owner, cache, mapped,
                     memid>>
  BY DEF IInv, StartSame, DataSame
<1>2. Carried
  <2>1. \A s \in Elements(c) : s[1] \in LifeNames \/ (s[1] \in {"process_done", "unload"} /\ Ready)
    BY DEF LifeNames, DataNames, CountNames
  <2>2. NotAt(t, ReadNames)
    BY DEF NotAt
  <2> QED
    BY <1>1, <2>1, <2>2, Carry
<1>3. BootInv'
  <2>1. t = Main /\ ~once /\ ~loaded => default[t] = HeapEmpty /\ ~Ready
    BY <1>1 DEF BootInv, Ready
  <2>2. t = Main /\ ~once /\ ~loaded => \A s \in Elements(c) : s[1] \in EarlyNames \ {"heap_init"}
    BY <2>1 DEF EarlyNames
  <2>3. NotAt(t, BootNames) /\ life[t] # "unborn"
    BY DEF NotAt
  <2> QED
    BY <1>1, <2>2, <2>3, BootKept, Heaps
<1>4. DataInv'
  <2>1. \A s \in Elements(c) : DataStep(t, s)'
    BY <1>1 DEF DataStep, OwnNames
  <2>2. ~Ending(t)
    BY DEF Ending, Has, Stepped
  <2>3. /\ Avoids(c, {"fill", "adopt", "put", "put_cas"})
        /\ NotAt(t, {"fill", "adopt", "put", "put_cas", "destructors"})
    BY DEF Avoids, NotAt
  <2> QED
    BY <1>1, <2>1, <2>2, <2>3, DataMoved
<1> QED
  BY <1>2, <1>3, <1>4, TogetherHolds DEF Together

LEMMA CallsOne ==
    ASSUME StackInv, NEW t \in Thread, NEW s \in Frame, s[1] \notin MainNames, Call(t, <<s>>)
    PROVE  Stepped(t, <<s>>) /\ Elements(<<s>>) = {s} /\ Idle(t)
<1>1. May(t, <<s>>) /\ Elements(<<s>>) = {s}
  BY MayOne
<1> QED
  BY <1>1, CallStepped DEF Call

LEMMA DoProgramCalls == ASSUME IInv, NEW t \in Thread, ProgramCalls(t) PROVE IInv'
<1> DEFINE a == <<"malloc">>
           b == <<"thread_done", default[t]>>
           d == <<"collect">>
           e == <<"merge", default[t]>>
           g == <<"process_done">>
<1>1. /\ StackInv /\ BootInv /\ DataInv /\ OptionsInv /\ ChoiceInv /\ life[t] = "runs"
      /\ UNCHANGED <<once, tlsDone, key, mainId, exited, threads, owner, cache, mapped, memid, program,
                     life, loaded, pages, drift, messageVars, default, keyValue, total, local>>
      /\ \/ Call(t, <<a>>) \/ Call(t, <<b>>) \/ Call(t, <<d>>)
         \/ default[t] # HeapEmpty /\ Call(t, <<e>>)
         \/ loaded /\ "exit_process" \in program[t] /\ Call(t, <<g>>)
  BY DEF ProgramCalls, Calling, processVars, tdVars, statVars, IInv
<1>2. StatsTypeOK /\ LifeTypeOK
  BY TypeParts DEF IInv
<1>3. /\ a \in Frame /\ b \in Frame /\ d \in Frame /\ (default[t] # HeapEmpty => e \in Frame)
      /\ g \in Frame /\ a[1] = "malloc" /\ b[1] = "thread_done" /\ b[2] = default[t]
      /\ d[1] = "collect" /\ e[1] = "merge" /\ g[1] = "process_done"
  <2>1. default[t] \in DefaultHeap
    BY <1>2 DEF LifeTypeOK
  <2> QED
    BY <2>1, FrameLife, FrameStats, Heaps
<1> HIDE DEF a, b, d, e, g
<1>4. loaded /\ "exit_process" \in program[t] /\ Idle(t) => Ready
  <2> SUFFICES ASSUME loaded, "exit_process" \in program[t], Idle(t) PROVE Ready
    OBVIOUS
  <2>1. CASE t = Main
    BY <1>1, <2>1, IdleReady
  <2>2. CASE t # Main
    <3>1. "early" \notin program[t]
      BY <1>1, <2>2, ProcessAssumption DEF ChoiceInv
    <3> QED
      BY <1>1, <2>2, <3>1 DEF OptionsInv, LoadInv
  <2> QED
    BY <2>1, <2>2
<1>5. PICK s \in {a, b, d, e, g} :
         /\ Call(t, <<s>>) /\ s \in Frame
         /\ s = e => default[t] # HeapEmpty
         /\ s = g => loaded /\ "exit_process" \in program[t]
  BY <1>1, <1>3
<1>6. Stepped(t, <<s>>) /\ Elements(<<s>>) = {s} /\ Idle(t)
  <2>1. s[1] \notin MainNames
    BY <1>3 DEF MainNames
  <2> QED
    BY <1>1, <1>5, <2>1, CallsOne
<1>7. StatsTypeOK' /\ LifeTypeOK'
  BY <1>1, <1>2 DEF StatsTypeOK, LifeTypeOK
<1>8. StartSame /\ DataSame /\ UNCHANGED <<messageVars, program>>
  BY <1>1 DEF StartSame, DataSame
<1>9. /\ \/ s[1] \in {"malloc", "thread_done", "collect"}
         \/ s[1] \in {"merge", "stat"} /\ default[t] # HeapEmpty
         \/ s[1] = "process_done" /\ Ready
      /\ s[1] = "thread_done" => s[2] = default[t]
  BY <1>3, <1>4, <1>5, <1>6
<1> QED
  BY <1>1, <1>6, <1>7, <1>8, <1>9, Calls

LEMMA UpdatedCount == ASSUME NEW x \in Count, NEW n \in {1, -1} PROVE Updated(x, n) \in Count
<1> DEFINE u == x.current + n
           v == Larger(x.peak, u)
           f == Flow(n)
           w == x[f] + Amount(n)
           y == [x EXCEPT !["current"] = u]
           z == [y EXCEPT !["peak"] = v]
<1>1. u \in Int /\ v \in Int /\ f \in Field /\ w \in Int
  BY DEF Count, Field, Flow, Amount, Larger
<1>2. Updated(x, n) = [x EXCEPT !.current = u, !.peak = v, ![f] = w]
  BY DEF Updated
<1> HIDE DEF u, v, f, w
<1>3. [x EXCEPT !.current = u, !.peak = v, ![f] = w] = [z EXCEPT ![f] = w]
  OBVIOUS
<1>4. y \in Count
  BY <1>1 DEF Count, Field
<1>5. z \in Count
  <2> HIDE DEF y
  <2> QED
    BY <1>1, <1>4 DEF Count, Field
<1> HIDE DEF z
<1>6. [z EXCEPT ![f] = w] \in Count
  BY <1>1, <1>5 DEF Count, Field
<1> QED
  BY <1>2, <1>3, <1>6

LEMMA DoCountPage == ASSUME IInv, NEW t \in Thread, CountPage(t) PROVE IInv'
<1> DEFINE a == <<"stat", "pages", -1>>
<1>1. /\ StackInv /\ BootInv /\ DataInv /\ default[t] # HeapEmpty /\ life[t] = "runs" /\ Idle(t)
      /\ \/ \E n \in {1, -1} : /\ Call(t, <<>>) /\ pages' = pages + n
                               /\ local' = [local EXCEPT ![default[t]] = Updated(@, n)]
         \/ Call(t, <<a>>) /\ pages' = pages - 1 /\ local' = local
      /\ UNCHANGED <<once, tlsDone, key, mainId, exited, threads, owner, cache, mapped, memid, program,
                     life, loaded, drift, messageVars, default, keyValue, total>>
  BY DEF CountPage, Calling, Call, processVars, tdVars, IInv
<1>2. StatsTypeOK /\ LifeTypeOK
  BY TypeParts DEF IInv
<1>3. a \in Frame /\ a[1] = "stat"
  BY FrameStats DEF Stat
<1> HIDE DEF a
<1>4. PICK c : Stepped(t, c) /\ Elements(c) \subseteq {a}
  <2>1. CASE Call(t, <<>>)
    <3>1. May(t, <<>>) /\ Elements(<<>>) = {}
      BY MayNone
    <3> QED
      BY <1>1, <2>1, <3>1, CallStepped
  <2>2. CASE Call(t, <<a>>)
    <3>1. a[1] \notin MainNames
      BY <1>3 DEF MainNames
    <3>2. Stepped(t, <<a>>) /\ Elements(<<a>>) = {a}
      BY <1>1, <1>3, <2>2, <3>1, CallsOne
    <3> QED
      BY <3>2
  <2> QED
    BY <1>1, <2>1, <2>2
<1>5. StatsTypeOK' /\ LifeTypeOK'
  <2>1. default[t] \in Tld
    BY <1>1, <1>2, Heaps DEF LifeTypeOK
  <2>2. \A x \in Count, n \in {1, -1} : Updated(x, n) \in Count
    BY UpdatedCount
  <2>3. local' \in [Tld -> Count] /\ pages' \in Int
    <3>1. local \in [Tld -> Count] /\ pages \in Int
      BY <1>2 DEF StatsTypeOK, LifeTypeOK
    <3>2. ASSUME NEW n \in {1, -1}, pages' = pages + n,
                 local' = [local EXCEPT ![default[t]] = Updated(@, n)]
          PROVE  local' \in [Tld -> Count] /\ pages' \in Int
      <4>1. Updated(local[default[t]], n) \in Count
        BY <2>1, <2>2, <3>1
      <4> QED
        BY <2>1, <3>1, <3>2, <4>1
    <3> QED
      BY <1>1, <3>1, <3>2
  <2> QED
    BY <1>1, <1>2, <2>3 DEF StatsTypeOK, LifeTypeOK
<1>6. StartSame /\ DataSame /\ UNCHANGED <<messageVars, program>>
  BY <1>1 DEF StartSame, DataSame
<1>7. \A s \in Elements(c) : s[1] = "stat"
  BY <1>3, <1>4
<1> QED
  BY <1>1, <1>4, <1>5, <1>6, <1>7, Calls

\* An option is set by the main thread, while no thread is reading it.
LEMMA ConfigureOption ==
    ASSUME IInv, Idle(Main), loaded, life[Main] = "runs", NEW o \in Option, NEW v \in Int,
           ~Reading(o), value' = [value EXCEPT ![o] = v], given' = [given EXCEPT ![o] = v],
           Call(Main, <<<<"initialized", o>>>>) \/ (init[o] # "INITIALIZED" /\ UNCHANGED todo),
           UNCHANGED <<env, preloading, init, limit, said, outDefault, outLen, outBuf>>,
           UNCHANGED <<total, local, once, tlsDone, key, mainId, exited, threads, owner, cache, mapped,
                       memid, program, life, loaded, pages, drift, default, keyValue>>
    PROVE  IInv'
<1> DEFINE a == <<"initialized", o>>
<1>1. /\ StackInv /\ BootInv /\ DataInv /\ OutputInv /\ OptionsInv /\ ChoiceInv /\ Main \in Thread
      /\ Ready
  BY IdleReady, Heaps DEF IInv
<1>2. a \in Frame /\ a[1] = "initialized" /\ a[2] = o
  BY FrameText
<1>3. Call(Main, <<a>>) \/ UNCHANGED todo
  OBVIOUS
<1> HIDE DEF a
<1>4. PICK c : Stepped(Main, c) /\ Elements(c) \subseteq {a}
  <2>1. CASE Call(Main, <<a>>)
    <3>1. a[1] \notin MainNames
      BY <1>2 DEF MainNames
    <3>2. Stepped(Main, <<a>>) /\ Elements(<<a>>) = {a}
      BY <1>1, <1>2, <2>1, <3>1, CallsOne
    <3> QED
      BY <3>2
  <2>2. CASE UNCHANGED todo
    <3>1. Stepped(Main, <<>>) /\ Elements(<<>>) = {}
      BY <1>1, <2>2, StillStepped, MayNone
    <3> QED
      BY <3>1
  <2> QED
    BY <1>3, <2>1, <2>2
<1>5. /\ StackInv' /\ Ahead(Main) = {} /\ Ahead(Main)' \subseteq {a}
      /\ \A u \in Thread \ {Main} : Ahead(u)' = Ahead(u)
  <2>1. StackInv' /\ Ahead(Main) = {} /\ Ahead(Main)' \subseteq {a}
    BY <1>4 DEF Stepped
  <2> QED
    BY <1>1, <1>4, <2>1, SteppedAhead
<1>6. MessagesTypeOK' /\ StatsTypeOK' /\ LifeTypeOK' /\ ChoiceInv'
  <2>1. MessagesTypeOK /\ StatsTypeOK /\ LifeTypeOK
    BY TypeParts DEF IInv
  <2>2. given' \in [Option -> Int \cup {Absent}]
    BY <1>1 DEF ChoiceInv
  <2> QED
    BY <1>1, <2>1, <2>2 DEF MessagesTypeOK, StatsTypeOK, LifeTypeOK, ChoiceInv
<1>7. OutputInv'
  <2>1. Avoids(c, {"copy", "terminate", "deliver"})
    BY <1>2, <1>4 DEF Avoids
  <2> QED
    BY <1>1, <1>4, <2>1, OutputKept
<1>8. /\ given'[o] = v /\ value'[o] = v /\ v # Absent
      /\ \A p \in Option \ {o} : given'[p] = given[p] /\ value'[p] = value[p]
  <2>1. value \in [Option -> Int] /\ given \in [Option -> Int \cup {Absent}]
    BY <1>1, TypeParts DEF IInv, MessagesTypeOK, ChoiceInv
  <2>2. v # Absent
    BY MessagesAssumption
  <2> QED
    BY <2>1, <2>2
<1>9. Ready' /\ \A p : EnvOf(p)' = EnvOf(p)
  BY <1>1 DEF Ready, EnvOf
<1>10. OptionsInv'
  <2>1. \A u \in Thread : \A s \in Ahead(u)' : OptionStep(s)'
    <3> TAKE u \in Thread
    <3> TAKE s \in Ahead(u)'
    <3>1. CASE s = a
      BY <1>2, <1>8, <3>1 DEF OptionStep
    <3>2. CASE s # a
      <4>1. u # Main /\ s \in Ahead(u)
        BY <1>5, <3>2
      <4>2. OptionStep(s) /\ s \in Frame /\ Typed(s)
        BY <1>1, <4>1, AheadTyped DEF OptionsInv
      <4>3. /\ s[1] \in {"getenv", "parse", "initialized"} => s[2] # o
            /\ s[1] = "quiet" => o # "verbose"
        BY <4>1 DEF Reading
      <4>4. s[1] \in {"getenv", "parse", "initialized"} => s[2] \in Option
        BY <4>2 DEF Typed
      <4>5. s[1] \in {"getenv", "parse", "initialized"} =>
               given'[s[2]] = given[s[2]] /\ value'[s[2]] = value[s[2]]
        BY <1>8, <4>3, <4>4
      <4>6. s[1] = "quiet" => given'["verbose"] = given["verbose"]
        BY <1>8, <4>3, MessagesAssumption
      <4> QED
        BY <1>9, <4>2, <4>5, <4>6 DEF OptionStep
    <3> QED
      BY <3>1, <3>2
  <2>2. \A p \in Option : ValueInv(p)'
    <3> TAKE p \in Option
    <3>1. CASE p = o
      BY <1>1, <1>8, <3>1 DEF ValueInv, Ready
    <3>2. CASE p # o
      <4>1. ValueInv(p) /\ given'[p] = given[p] /\ value'[p] = value[p]
        BY <1>1, <1>8, <3>2 DEF OptionsInv
      <4>2. \A u \in Thread : Ahead(u) \subseteq Ahead(u)'
        BY <1>5
      <4>3. \A u \in Thread : /\ Has(u, "quiet") => Has(u, "quiet")'
                              /\ HasFor(u, {"initialized"}, p) => HasFor(u, {"initialized"}, p)'
        BY <4>2 DEF Has, HasFor
      <4> QED
        BY <1>9, <4>1, <4>3 DEF ValueInv
    <3> QED
      BY <3>1, <3>2
  <2>3. LoadInv'
    BY <1>9 DEF LoadInv, Ready
  <2> QED
    BY <2>1, <2>2, <2>3 DEF OptionsInv
<1>11. BootInv'
  <2>1. NotAt(Main, BootNames) /\ life[Main] # "unborn"
    BY DEF NotAt
  <2> QED
    BY <1>1, <1>4, <2>1, BootKept
<1>12. DataInv'
  <2>1. Avoids(c, DataNames) /\ NotAt(Main, {"fill", "adopt", "put", "put_cas", "thread_done",
                                             "heap_done", "destructors"})
    BY <1>2, <1>4 DEF Avoids, DataNames, NotAt
  <2> QED
    BY <1>1, <1>4, <2>1, DataKept
<1> QED
  BY <1>5, <1>6, <1>7, <1>10, <1>11, <1>12, TogetherHolds DEF Together, Carried

\* An output function is registered.
LEMMA ConfigureOutput ==
    ASSUME IInv, Idle(Main), loaded, life[Main] = "runs", NEW out \in {"user", "stderr"},
           RegisterOutput(Main, out),
           UNCHANGED <<total, local, once, tlsDone, key, mainId, exited, threads, owner, cache, mapped,
                       memid, program, life, loaded, pages, drift, default, keyValue>>
    PROVE  IInv'
<1> DEFINE a == <<"flush", TRUE>>
<1>1. /\ StackInv /\ BootInv /\ DataInv /\ OutputInv /\ OptionsInv /\ ChoiceInv /\ Main \in Thread
      /\ outDefault' = out
      /\ UNCHANGED <<env, preloading, value, init, given, limit, said, outLen, outBuf>>
      /\ Call(Main, <<a>>) \/ Call(Main, <<>>)
  BY Heaps DEF IInv, RegisterOutput, optionVars
<1>2. a \in Frame /\ a[1] = "flush"
  BY FrameText
<1> HIDE DEF a
<1>3. PICK c : Stepped(Main, c) /\ Elements(c) \subseteq {a}
  <2>1. May(Main, <<a>>) /\ Elements(<<a>>) = {a}
    BY <1>2, MayOne
  <2>2. Call(Main, <<a>>) => Stepped(Main, <<a>>)
    BY <1>1, <2>1, CallStepped
  <2>3. May(Main, <<>>) /\ Elements(<<>>) = {}
    BY MayNone
  <2>4. Call(Main, <<>>) => Stepped(Main, <<>>)
    BY <1>1, <2>3, CallStepped
  <2> QED
    BY <1>1, <2>1, <2>2, <2>3, <2>4
<1>4. MessagesTypeOK' /\ StatsTypeOK' /\ LifeTypeOK' /\ ChoiceInv'
  <2>1. MessagesTypeOK /\ StatsTypeOK /\ LifeTypeOK
    BY TypeParts DEF IInv
  <2> QED
    BY <1>1, <2>1 DEF MessagesTypeOK, StatsTypeOK, LifeTypeOK, ChoiceInv
<1>5. /\ Avoids(c, {"copy", "terminate", "deliver"}) /\ Avoids(c, OptionNames) /\ Avoids(c, DataNames)
      /\ NotAt(Main, ReadNames) /\ NotAt(Main, BootNames)
      /\ NotAt(Main, {"fill", "adopt", "put", "put_cas", "thread_done", "heap_done", "destructors"})
  BY <1>2, <1>3 DEF Avoids, DataNames, OptionNames, NotAt
<1>6. OutputInv'
  BY <1>1, <1>3, <1>5, OutputKept
<1>7. OptionsInv'
  BY <1>1, <1>3, <1>5, OptionsKept
<1>8. BootInv'
  <2>1. life[Main] # "unborn"
    OBVIOUS
  <2> QED
    BY <1>1, <1>3, <1>5, <2>1, BootKept
<1>9. DataInv'
  BY <1>1, <1>3, <1>5, DataKept
<1>10. StackInv'
  BY <1>3 DEF Stepped
<1> QED
  BY <1>4, <1>6, <1>7, <1>8, <1>9, <1>10, TogetherHolds DEF Together, Carried

LEMMA DoConfigure == ASSUME IInv, NEW t \in Thread, Configure(t) PROVE IInv'
<1>1. /\ t = Main /\ loaded /\ life[Main] = "runs"
      /\ UNCHANGED <<total, local, once, tlsDone, key, mainId, exited, threads, owner, cache, mapped,
                     memid, program, life, loaded, pages, drift, default, keyValue>>
  BY DEF Configure, statVars, processVars, tdVars, lifeVars
<1>2. ASSUME NEW s \in Settings, ~Reading(s[1]), OptionSet(t, s[1], s[2]) \/ OptionSetDefault(t, s[1], s[2])
      PROVE  IInv'
  <2>1. s[1] \in Option /\ s[2] \in Int
    BY ProcessAssumption
  <2>2. /\ Idle(Main) /\ value' = [value EXCEPT ![s[1]] = s[2]] /\ given' = [given EXCEPT ![s[1]] = s[2]]
        /\ Call(Main, <<<<"initialized", s[1]>>>>) \/ (init[s[1]] # "INITIALIZED" /\ UNCHANGED todo)
        /\ UNCHANGED <<env, preloading, init, limit, said, outDefault, outLen, outBuf>>
    BY <1>1, <1>2 DEF OptionSet, OptionSetDefault, Call, outVars
  <2> QED
    BY <1>1, <1>2, <2>1, <2>2, ConfigureOption
<1>3. ASSUME NEW out \in {"user", "stderr"}, RegisterOutput(t, out)
      PROVE  IInv'
  <2>1. Idle(Main) /\ RegisterOutput(Main, out)
    BY <1>1, <1>3 DEF RegisterOutput, Call
  <2> QED
    BY <1>1, <2>1, ConfigureOutput
<1> QED
  BY <1>2, <1>3 DEF Configure

(***************************************************************************)
(* The invariant holds, and what follows from it.                          *)
(***************************************************************************)
LEMMA InitIInv == Init => IInv
<1> SUFFICES ASSUME Init PROVE IInv
  OBVIOUS
<1>1. /\ MessagesInit /\ StatsInit /\ program \in Programs
      /\ todo = [t \in Thread |-> <<>>]
      /\ once = FALSE /\ tlsDone = FALSE /\ key = FALSE /\ exited = FALSE
      /\ mainId = NoThread /\ threads = 1
      /\ default = [t \in Thread |-> HeapEmpty]
      /\ keyValue = [t \in Thread |-> Null]
      /\ owner = [d \in Td |-> NoThread]
      /\ cache = [i \in Slot |-> Null]
      /\ mapped = {} /\ memid = [d \in Td |-> "none"]
      /\ life = [t \in Thread |-> IF t = Main THEN "runs" ELSE "unborn"]
      /\ loaded = FALSE /\ pages = 0 /\ drift = FALSE
  BY DEF Init
<1>2. \A t \in Thread : todo[t] = <<>> /\ Idle(t) /\ Ahead(t) = {}
  <2> TAKE t \in Thread
  <2>1. todo[t] = <<>>
    BY <1>1
  <2> QED
    BY <2>1 DEF Idle, Ahead
<1>3. \A t \in Thread : \A n : ~Now(t, n) /\ ~Has(t, n)
  BY <1>2 DEF Now, Has
<1>4. StackInv
  <2>1. <<>> \in Seq(Frame) /\ Stacked(<<>>)
    BY DEF Stacked
  <2> QED
    BY <1>1, <1>2, <2>1 DEF StackInv
<1>5. MessagesTypeOK /\ StatsTypeOK /\ LifeTypeOK /\ ChoiceInv
  <2>1. MessagesTypeOK
    BY <1>1, MessagesAssumption DEF MessagesInit, MessagesTypeOK, Kind
  <2>2. StatsTypeOK
    <3>1. Zero \in Count
      BY DEF Zero, Count
    <3> QED
      BY <1>1, <3>1 DEF StatsInit, StatsTypeOK
  <2>3. LifeTypeOK
    <3>1. {once, tlsDone, key, exited, loaded, drift} \subseteq BOOLEAN
      <4>1. /\ once = FALSE /\ tlsDone = FALSE /\ key = FALSE /\ exited = FALSE /\ loaded = FALSE
            /\ drift = FALSE
        BY <1>1
      <4> QED
        BY <4>1
    <3>5. mainId \in Thread \cup {NoThread} /\ threads \in Int /\ pages \in Int
      BY <1>1
    <3>4. life \in [Thread -> {"unborn", "runs", "over"}]
      BY <1>1
    <3>2. /\ default \in [Thread -> DefaultHeap]
          /\ keyValue \in [Thread -> DefaultHeap \cup {Null}]
      BY <1>1, Heaps
    <3>3. /\ owner \in [Td -> Thread \cup {NoThread}] /\ cache \in [Slot -> Td \cup {Null}]
          /\ mapped \subseteq Td /\ memid \in [Td -> {"none", "os"}]
      BY <1>1
    <3> QED
      BY <3>1, <3>2, <3>3, <3>4, <3>5 DEF LifeTypeOK
  <2>4. ChoiceInv
    BY <1>1 DEF MessagesInit, ChoiceInv
  <2> QED
    BY <2>1, <2>2, <2>3, <2>4
<1>6. BootInv
  BY <1>1, <1>2, <1>3, Heaps DEF BootInv
<1>7. DataInv
  <2>1. ASSUME NEW t \in Thread PROVE HeapInv(t)
    BY <1>1, <1>2, <1>3, Heaps DEF HeapInv
  <2>2. ASSUME NEW d \in Td PROVE PlaceInv(d)
    <3>1. d # Null /\ d # HeapEmpty
      BY Heaps
    <3>2. \A t \in Thread : default[t] # d /\ ~InHand(t, d)
      BY <1>1, <1>2, <3>1 DEF InHand
    <3>3. \A j \in Slot : cache[j] # d
      BY <1>1, <3>1
    <3>4. Places(d) = {}
      BY <3>2, <3>3 DEF Places
    <3> QED
      BY <1>1, <3>4 DEF PlaceInv
  <2> QED
    BY <2>1, <2>2 DEF DataInv
<1>8. OutputInv
  <2>1. \A i \in 0..(MaxDelay - 1) : outBuf[i] = "zero"
    BY <1>1, MessagesAssumption DEF MessagesInit
  <2>2. Copying = {} /\ \A t \in Thread : ~Closing(t) /\ ~Now(t, "deliver")
    BY <1>3 DEF Copying, Closing
  <2> QED
    BY <2>1, <2>2 DEF OutputInv
<1>9. OptionsInv
  <2>1. \A t \in Thread : \A s \in Ahead(t) : OptionStep(s)
    BY <1>2
  <2>2. /\ value = Initial /\ init = [o \in Option |-> "UNINIT"] /\ given = [o \in Option |-> Absent]
    BY <1>1 DEF MessagesInit
  <2>3. ASSUME NEW o \in Option PROVE ValueInv(o)
    BY <2>2 DEF ValueInv
  <2>4. LoadInv
    BY <1>1, <1>3, Heaps DEF LoadInv
  <2> QED
    BY <2>1, <2>3, <2>4 DEF OptionsInv
<1> QED
  BY <1>4, <1>5, <1>6, <1>7, <1>8, <1>9, TypeParts DEF IInv

LEMMA StepIInv == IInv /\ [Next]_vars => IInv'
<1> SUFFICES ASSUME IInv, [Next]_vars PROVE IInv'
  OBVIOUS
<1>1. ASSUME NEW t \in Thread, Step(t) PROVE IInv'
  <2>1. CASE MessageStep(t) /\ UNCHANGED <<statVars, processVars, tdVars, lifeVars, default, keyValue>>
    BY <2>1, DoMessage
  <2>2. CASE StatStep(t) /\ UNCHANGED <<messageVars, processVars, tdVars, lifeVars, default, keyValue>>
    BY <2>2, DoStat
  <2>3. CASE \/ InitHeapMain(t) \/ ProcessLoad(t) \/ LoadingDone(t) \/ SetupAutoDone(t)
             \/ KeyCreate(t) \/ ProcessInit(t) \/ ThreadInit(t) \/ HeapInit(t) \/ AdoptMain(t)
             \/ CountThread(t)
    BY <2>3, DoInitHeapMain, DoProcessLoad, DoLoadingDone, DoSetupAutoDone, DoKeyCreate,
       DoProcessInit, DoThreadInit, DoHeapInit, DoAdoptMain, DoCountThread
  <2>4. CASE \/ CacheLoad(t) \/ CacheExchange(t) \/ TdAlloc(t) \/ TdFill(t) \/ TdAdopt(t)
             \/ CacheFind(t) \/ CachePut(t) \/ CacheDrain(t) \/ DrainTake(t)
    BY <2>4, DoCacheLoad, DoCacheExchange, DoTdAlloc, DoTdFill, DoTdAdopt, DoCacheFind,
       DoCachePut, DoCacheDrain, DoDrainTake
  <2>5. CASE \/ ThreadDone(t) \/ HeapDone(t) \/ ThreadExit(t) \/ Destructors(t) \/ MallocGeneric(t)
             \/ ThreadStart(t) \/ ProgramCalls(t) \/ CountPage(t) \/ CollectForce(t)
    BY <2>5, DoThreadDone, DoHeapDone, DoThreadExit, DoDestructors, DoMallocGeneric,
       DoThreadStart, DoProgramCalls, DoCountPage, DoCollectForce
  <2>6. CASE ProcessDone(t) \/ StatsPrint(t) \/ PrintMerge(t) \/ Unload(t) \/ Configure(t)
    BY <2>6, DoProcessDone, DoStatsPrint, DoPrintMerge, DoUnload, DoConfigure
  <2> QED
    BY <1>1, <2>1, <2>2, <2>3, <2>4, <2>5, <2>6 DEF Step
<1>2. CASE UNCHANGED vars
  <2>1. /\ UNCHANGED <<todo, env, preloading, value, init, given, limit, said, outDefault, outLen, outBuf>>
        /\ UNCHANGED <<total, local, once, tlsDone, key, mainId, exited, threads, owner, cache, mapped,
                       memid, program, life, loaded, pages, drift, default, keyValue>>
    BY <1>2 DEF vars, messageVars, statVars, processVars, tdVars, lifeVars
  <2>2. /\ \A t : (Idle(t)' <=> Idle(t)) /\ Ahead(t)' = Ahead(t)
        /\ \A t, i : Arg(t, i)' = Arg(t, i)
        /\ \A t, n : Now(t, n)' <=> Now(t, n)
    BY <2>1 DEF Idle, Ahead, Arg, Now
  <2>3. MessagesTypeOK' /\ StatsTypeOK' /\ LifeTypeOK' /\ ChoiceInv' /\ StackInv'
    <3>1. MessagesTypeOK /\ StatsTypeOK /\ LifeTypeOK /\ ChoiceInv /\ StackInv
      BY TypeParts DEF IInv
    <3> QED
      BY <2>1, <2>2, <3>1 DEF MessagesTypeOK, StatsTypeOK, LifeTypeOK, ChoiceInv, StackInv
  <2>4. BootInv'
    BY <2>1, <2>2 DEF IInv, BootInv, Has, Started
  <2>5. DataInv'
    <3>1. ASSUME NEW t \in Thread PROVE HeapInv(t)'
      BY <2>1, <2>2 DEF IInv, DataInv, HeapInv, DataStep, Ending, Has
    <3>2. ASSUME NEW d \in Td PROVE PlaceInv(d)'
      <4>1. Places(d)' = Places(d)
        BY <2>1, <2>2 DEF Places, InHand
      <4> QED
        BY <2>1, <4>1, PlaceKept DEF IInv, DataInv
    <3> QED
      BY <3>1, <3>2 DEF DataInv
  <2>6. OutputInv'
    <3>1. Copying' = Copying /\ \A t : Target(t)' = Target(t) /\ (Closing(t)' <=> Closing(t))
      BY <2>2 DEF Copying, Target, Closing
    <3> QED
      BY <2>1, <2>2, <3>1 DEF IInv, OutputInv
  <2>7. OptionsInv'
    <3>1. \A o : EnvOf(o)' = EnvOf(o)
      BY <2>1 DEF EnvOf
    <3>2. \A s : OptionStep(s)' <=> OptionStep(s)
      BY <2>1, <3>1 DEF OptionStep, Ready
    <3>3. \A o : ValueInv(o)' <=> ValueInv(o)
      BY <2>1, <2>2, <3>1 DEF ValueInv, Has, HasFor
    <3>4. LoadInv' <=> LoadInv
      BY <2>1, <2>2 DEF LoadInv, Ready, Has, HasFor
    <3> QED
      BY <2>2, <3>2, <3>3, <3>4 DEF IInv, OptionsInv
  <2> QED
    BY <2>3, <2>4, <2>5, <2>6, <2>7, TypeParts DEF IInv
<1> QED
  BY <1>1, <1>2 DEF Next

\* Messages and terminators never meet.
LEMMA IInvBuffer == IInv => BufferSound
<1> SUFFICES ASSUME IInv PROVE BufferSound
  OBVIOUS
<1>1. StackInv /\ OutputInv
  BY DEF IInv
<1>2. ASSUME NEW t \in Copying
      PROVE  /\ Target(t) \subseteq 0..(MaxDelay - 2)
             /\ \A i \in Target(t) : outBuf[i] = "zero"
             /\ \A u \in Copying \ {t} : Target(t) \cap Target(u) = {}
             /\ \A u \in Thread : Now(u, "deliver") => Arg(u, 1) \notin Target(t)
  <2>1. t \in Thread /\ Now(t, "copy")
    BY <1>2 DEF Copying
  <2>2. Arg(t, 1) \in Nat /\ Arg(t, 2) \in Nat
    BY <1>1, <2>1, NowTyped DEF Typed, Arg
  <2>3. Arg(t, 1) + Arg(t, 2) < MaxDelay
    BY <1>1, <1>2 DEF OutputInv
  <2>4. Target(t) \subseteq 0..(MaxDelay - 2)
    BY <2>2, <2>3, MessagesAssumption DEF Target
  <2> QED
    BY <1>1, <1>2, <2>4 DEF OutputInv, Closing
<1> QED
  BY <1>1, <1>2 DEF BufferSound, OutputInv

\* An option that nobody is reading is resolved.
LEMMA IInvOptions == IInv => OptionsResolve
<1> SUFFICES ASSUME IInv, NEW o \in Option, ~Reading(o)
             PROVE  /\ given[o] # Absent => value[o] = given[o]
                    /\ given[o] = Absent =>
                          value[o] = IF init[o] # "UNINIT" THEN FromEnvironment(o) ELSE Initial[o]
                    /\ loaded /\ Idle(Main) => init[o] # "UNINIT"
  BY DEF OptionsResolve
<1>1. OptionsInv /\ ValueInv(o)
  BY DEF IInv, OptionsInv
<1>2. \A t \in Thread : ~HasFor(t, {"initialized"}, o) /\ (o = "verbose" => ~Has(t, "quiet"))
  BY DEF Reading, HasFor, Has
<1>3. loaded /\ Idle(Main) => init[o] # "UNINIT"
  BY <1>1, IdleReady DEF Ready
<1> QED
  BY <1>1, <1>2, <1>3 DEF ValueInv, FromEnvironment

\* Thread data is in one place.
LEMMA IInvData == IInv => ThreadDataSound
<1> SUFFICES ASSUME IInv PROVE ThreadDataSound
  OBVIOUS
<1>1. TypeOK /\ DataInv /\ BootInv
  BY DEF IInv
<1>2. ASSUME NEW d \in Td PROVE Cardinality(Places(d)) <= 1
  <2>1. \A p, q \in Places(d) : p = q
    BY <1>1 DEF DataInv, PlaceInv
  <2>2. CASE Places(d) = {}
    <3>1. Cardinality(Places(d)) = 0
      BY <2>2, FS_EmptySet
    <3> QED
      BY <3>1
  <2>3. CASE Places(d) # {}
    <3>1. PICK p : p \in Places(d)
      BY <2>3
    <3>2. Places(d) = {p}
      BY <2>1, <3>1
    <3>3. Cardinality(Places(d)) = 1
      BY <3>2, FS_Singleton
    <3> QED
      BY <3>3
  <2> QED
    BY <2>2, <2>3
<1>3. ASSUME NEW t \in Thread
      PROVE  /\ default[t] \in Td => owner[default[t]] = t
             /\ default[t] = HeapMain => IsMainThread(t)
             /\ life[t] = "over" /\ Idle(t) => default[t] \notin Td
  <2>1. HeapInv(t)
    BY <1>1 DEF DataInv
  <2>2. t = Main => IsMainThread(t)
    BY <1>1 DEF BootInv, IsMainThread
  <2> QED
    BY <2>1, <2>2 DEF HeapInv
<1> QED
  BY <1>1, <1>2, <1>3 DEF ThreadDataSound, DataInv, PlaceInv

\* The inductive invariant holds of every run of every program.
THEOREM Invariance == Spec => []IInv
<1> QED
  BY InitIInv, StepIInv, PTL DEF Spec

\* For any number of threads and any programs, thread data is in one slot of the cache or
\* with one thread, its owner, and is mapped as long (init.c:219, 256, 271).
THEOREM ThreadDataAlwaysSound == Spec => []ThreadDataSound
<1> QED
  BY Invariance, IInvData, PTL

\* Whichever threads read which options first, and whenever the environment can be read,
\* every option ends with the value it was set to or that of the environment
\* (options.c:28, 84, 540).
THEOREM OptionsAlwaysResolve == Spec => []OptionsResolve
<1> QED
  BY Invariance, IInvOptions, PTL

\* Whatever the sizes of buffer and messages, threads that copy into the delayed output
\* at the same time stay apart and inside the buffer (options.c:190, 206).
THEOREM BufferAlwaysSound == Spec => []BufferSound
<1> QED
  BY Invariance, IInvBuffer, PTL
=============================================================================
